---------------------------- MODULE Spec2Model ----------------------------
(***************************************************************************)
(* Model of the interactive shell of mcerv (multi-server): the command     *)
(* tree, the resolver CommandManager::execute, and the context engine      *)
(* that switches the read loop between dispatching commands and forwarding *)
(* lines to an attached server process.                                    *)
(*                                                                         *)
(* Strings are tuples of one-character strings, so that prefixes,          *)
(* whitespace and quoting are computed and not assumed.                    *)
(***************************************************************************)
EXTENDS Integers, Sequences, FiniteSets, TLC

\* ------------------------------------------------------------------ bounds

\* Longest token list the resolver is driven with.
MaxTokens == 3
\* Depth of the sub-command chain below cmd1 in the generated trees.
MaxDepth == 2

\* ----------------------------------------------------------------- strings

Range(s) == {s[i] : i \in 1..Len(s)}

Max(S) == CHOOSE x \in S : \A y \in S : y <= x

Min(S) == CHOOSE x \in S : \A y \in S : x <= y

\* char::is_whitespace, on the alphabet of the model
is_whitespace(c) == c \in {" ", "\t", "\n"}

\* str::starts_with
starts_with(s, p) == Len(p) <= Len(s) /\ SubSeq(s, 1, Len(p)) = p

\* str::trim().is_empty()
\* str::ends_with
ends_with(s, p) ==
    Len(p) <= Len(s) /\ SubSeq(s, Len(s) - Len(p) + 1, Len(s)) = p

\* str::contains with a string pattern
contains_str(s, p) ==
    \E i \in 1..(Len(s) - Len(p) + 1) : SubSeq(s, i, i + Len(p) - 1) = p

trim_is_empty(s) == \A i \in 1..Len(s) : is_whitespace(s[i])

\* a slip: a token that is a prefix of the name counts as the name
contains_prefix(tokens, name) == \E i \in 1..Len(tokens) : starts_with(name, tokens[i])

\* [String]::contains
contains(tokens, name) == \E i \in 1..Len(tokens) : tokens[i] = name

\* ------------------------------------------------------------ shlex::split
\* The tokenizer the crate shlex implements: Shlex::next skips whitespace and
\* '#' comments, parse_word reads one word with quotes and backslash escapes.
\* A result is [ok |-> BOOLEAN, tokens |-> sequence of strings].

\* parse_single: after the opening ', up to the closing one.
\* Returns [ok, word, rest].
RECURSIVE parse_single(_, _)
parse_single(s, acc) ==
    IF s = << >> THEN [ok |-> FALSE, word |-> acc, rest |-> << >>]
    ELSE IF Head(s) = "'" THEN [ok |-> TRUE, word |-> acc, rest |-> Tail(s)]
    ELSE parse_single(Tail(s), Append(acc, Head(s)))

\* parse_double: after the opening ", up to the closing one.  A backslash keeps
\* its meaning before $, ", \ and the grave accent; the alphabet of the model
\* holds no grave accent.
RECURSIVE parse_double(_, _)
parse_double(s, acc) ==
    IF s = << >> THEN [ok |-> FALSE, word |-> acc, rest |-> << >>]
    ELSE IF Head(s) = "\"" THEN [ok |-> TRUE, word |-> acc, rest |-> Tail(s)]
    ELSE IF Head(s) = "\\" THEN
        IF Tail(s) = << >> THEN [ok |-> FALSE, word |-> acc, rest |-> << >>]
        ELSE LET c == Head(Tail(s)) IN
             IF c \in {"$", "\"", "\\"}
             THEN parse_double(Tail(Tail(s)), Append(acc, c))
             ELSE IF c = "\n" THEN parse_double(Tail(Tail(s)), acc)
             ELSE parse_double(Tail(Tail(s)), acc \o <<"\\", c>>)
    ELSE parse_double(Tail(s), Append(acc, Head(s)))

\* parse_word: s starts at the first character of the word.
RECURSIVE parse_word(_, _)
parse_word(s, acc) ==
    IF s = << >> THEN [ok |-> TRUE, word |-> acc, rest |-> << >>]
    ELSE LET ch == Head(s) IN
         IF ch = "\"" THEN
             LET r == parse_double(Tail(s), acc) IN
             IF r.ok THEN parse_word(r.rest, r.word) ELSE r
         ELSE IF ch = "'" THEN
             LET r == parse_single(Tail(s), acc) IN
             IF r.ok THEN parse_word(r.rest, r.word) ELSE r
         ELSE IF ch = "\\" THEN
             IF Tail(s) = << >> THEN [ok |-> FALSE, word |-> acc, rest |-> << >>]
             ELSE IF Head(Tail(s)) = "\n" THEN parse_word(Tail(Tail(s)), acc)
             ELSE parse_word(Tail(Tail(s)), Append(acc, Head(Tail(s))))
         ELSE IF is_whitespace(ch) THEN [ok |-> TRUE, word |-> acc, rest |-> Tail(s)]
         ELSE parse_word(Tail(s), Append(acc, ch))

\* the comment skip of Shlex::next: drop up to and including the newline
RECURSIVE skip_comment(_)
skip_comment(s) ==
    IF s = << >> THEN << >>
    ELSE IF Head(s) = "\n" THEN Tail(s)
    ELSE skip_comment(Tail(s))

\* Shlex::next repeated by collect(), with had_error deciding the Option
RECURSIVE shlex_words(_, _)
shlex_words(s, acc) ==
    IF s = << >> THEN [ok |-> TRUE, tokens |-> acc]
    ELSE IF is_whitespace(Head(s)) THEN shlex_words(Tail(s), acc)
    ELSE IF Head(s) = "#" THEN shlex_words(skip_comment(Tail(s)), acc)
    ELSE LET r == parse_word(s, << >>) IN
         IF r.ok THEN shlex_words(r.rest, Append(acc, r.word))
         ELSE [ok |-> FALSE, tokens |-> << >>]

shlex_split(line) == shlex_words(line, << >>)

\* ------------------------------------------------------------ command tree
\* Command and SubCommand: name, sub_commands, options, handler.  help is text
\* only and is left out.  A handler is the name of the function the node stores;
\* None is Option::None.

None == "None"

Node(name, subs, opts, handler) ==
    [name |-> name, sub_commands |-> subs, options |-> opts, handler |-> handler]

\* CommandManager::create_commands
create_commands ==
    << Node(<<"l","i","s","t">>,
            << Node(<<"s","e","r","v","e","r","s">>, << >>, << >>, "list_servers_handler"),
               Node(<<"m","o","d","s">>, << >>, << <<"u","p","d","a","t","e">> >>, "list_mods_handler") >>,
            << >>, None),
       Node(<<"s","e","a","r","c","h">>,
            << Node(<<"s","e","r","v","e","r","-","v","e","r","s","i","o","n","s">>, << >>, << <<"a","l","l">>, <<"s","t","a","b","l","e","-","o","n","l","y">> >>,
                    "search_server_versions_handler"),
               Node(<<"m","o","d","s">>, << >>, << <<"f","a","c","e","t","s">>, <<"i","n","d","e","x">>, <<"l","i","m","i","t">> >>,
                    "search_mods_handler"),
               Node(<<"m","o","d","-","v","e","r","s","i","o","n","s">>, << >>, << <<"f","e","a","t","u","r","e","d">> >>,
                    "search_mod_versions_handler") >>,
            << >>, None),
       Node(<<"s","e","l","e","c","t">>, << >>, << >>, "select_handler"),
       Node(<<"s","e","l","e","c","t","e","d">>, << >>, << >>, "selected_handler"),
       Node(<<"s","e","t">>,
            << Node(<<"m","a","x","-","m","e","m","o","r","y">>, << >>, << >>, "set_max_memory_handler"),
               Node(<<"m","i","n","-","m","e","m","o","r","y">>, << >>, << >>, "set_min_memory_handler"),
               Node(<<"j","a","v","a">>, << >>, << >>, "set_java_home_handler") >>,
            << >>, None),
       Node(<<"a","d","d">>,
            << Node(<<"s","e","r","v","e","r">>, << >>,
                    << <<"g","a","m","e">>, <<"l","o","a","d","e","r">>, <<"i","n","s","t","a","l","l","e","r">>, <<"l","a","t","e","s","t","-","s","t","a","b","l","e">> >>,
                    "add_server_handler"),
               Node(<<"m","o","d">>, << >>, << >>, "add_mod_handler") >>,
            << >>, None),
       Node(<<"g","e","n","e","r","a","t","e">>,
            << Node(<<"s","t","a","r","t","-","s","c","r","i","p","t">>, << >>, << >>, "generate_start_script_handler") >>,
            << >>, None),
       Node(<<"u","p","d","a","t","e">>,
            << Node(<<"s","e","r","v","e","r">>, << >>,
                    << <<"g","a","m","e">>, <<"l","o","a","d","e","r">>, <<"i","n","s","t","a","l","l","e","r">>, <<"l","a","t","e","s","t","-","s","t","a","b","l","e">> >>,
                    "update_server_handler") >>,
            << >>, None),
       Node(<<"c","h","e","c","k">>,
            << Node(<<"m","o","d","s","-","s","u","p","p","o","r","t">>, << >>, << >>, "check_mods_support_handler") >>,
            << >>, None),
       Node(<<"a","c","c","e","p","t","-","e","u","l","a">>, << >>, << >>, "accept_eula_handler"),
       Node(<<"s","t","a","r","t">>, << >>, << >>, "start_server_handler"),
       Node(<<"e","x","i","t">>, << >>, << >>, "exit_handler") >>

\* The tree of tests::test_smart_completer: cmd1 -> sub1 (--opt1), cmd2.
test_commands ==
    << Node(<<"c","m","d","1">>, << Node(<<"s","u","b","1">>, << >>, << <<"o","p","t","1">> >>, None) >>, << >>, None),
       Node(<<"c","m","d","2">>, << >>, << >>, None) >>

\* ---------------------------------------------------------------- resolver

\* a slip: the child named by the earliest token that names a child
find_index_typed(subs, tokens) ==
    LET J == {j \in 1..Len(tokens) : \E i \in 1..Len(subs) : subs[i].name = tokens[j]}
    IN IF J = {} THEN 0
       ELSE Min({i \in 1..Len(subs) : subs[i].name = tokens[Min(J)]})

\* iter().find(|s| tokens.contains(&s.name)): index of the first match, 0 if none
find_index(subs, tokens) ==
    LET I == {i \in 1..Len(subs) : contains(tokens, subs[i].name)}
    IN IF I = {} THEN 0 ELSE Min(I)

\* the while-let loop of find_deepest_subcommand
RECURSIVE descend(_, _)
descend(current, tokens) ==
    LET i == find_index(current.sub_commands, tokens)
    IN IF i = 0 THEN current ELSE descend(current.sub_commands[i], tokens)

\* CommandManager::find_deepest_subcommand: << >> is None, <<node>> is Some(node)
find_deepest_subcommand(subcommands, tokens) ==
    LET i == find_index(subcommands, tokens)
    IN IF i = 0 THEN << >> ELSE << descend(subcommands[i], tokens) >>

\* a slip: the first command whose name starts with the token
find_command_prefix(cmds, name) ==
    LET I == {i \in 1..Len(cmds) : starts_with(cmds[i].name, name)}
    IN IF I = {} THEN 0 ELSE Min(I)

\* iter().find(|cmd| cmd.name == tokens[0]) over the top-level commands
find_command(cmds, name) ==
    LET I == {i \in 1..Len(cmds) : cmds[i].name = name}
    IN IF I = {} THEN 0 ELSE Min(I)

\* Option::or
or(a, b) == IF a # None THEN a ELSE b

\* the handler selection of execute: subcommand.handler.or(command.handler)
select_handler(command, deepest) ==
    IF deepest = << >> THEN command.handler
    ELSE or(deepest[1].handler, command.handler)

\* CommandManager::execute up to the call of the handler.
\* kind: "blank" (Ok without dispatch), "parse_error", "panic" (tokens[0] on an
\* empty list), "unknown_command", "no_handler", "handler" (the handler is called).
Outcome(kind, handler, tokens) == [kind |-> kind, handler |-> handler, tokens |-> tokens]

\* a slip: a command without a handler is accepted silently
dispatch_silent(h, tokens) ==
    IF h = None THEN Outcome("blank", None, tokens) ELSE Outcome("handler", h, tokens)

\* .ok_or("Command does not have a handler.")? and the call handler(self, state, &tokens)
dispatch(h, tokens) ==
    IF h = None THEN Outcome("no_handler", None, tokens) ELSE Outcome("handler", h, tokens)

execute(cmds, line) ==
    IF trim_is_empty(line) THEN Outcome("blank", None, << >>)
    ELSE LET sp == shlex_split(line) IN
    IF ~sp.ok THEN Outcome("parse_error", None, << >>)
    ELSE LET tokens == sp.tokens IN
    IF tokens = << >> THEN Outcome("panic", None, tokens)
    ELSE LET c == find_command(cmds, tokens[1]) IN
    IF c = 0 THEN Outcome("unknown_command", None, tokens)
    ELSE dispatch(select_handler(cmds[c], find_deepest_subcommand(cmds[c].sub_commands, tokens)),
                  tokens)

\* -------------------------------------------------------------- completion

\* shlex::split(input).unwrap_or_default()
unwrap_or_default(sp) == IF sp.ok THEN sp.tokens ELSE << >>

\* input.rfind(char::is_whitespace).map(|i| i + 1).unwrap_or(0), as a count of
\* characters
start_pos(input) ==
    LET ws == {i \in 1..Len(input) : is_whitespace(input[i])}
    IN IF ws = {} THEN 0 ELSE Max(ws)

\* str::trim_start_matches with a one-character pattern
RECURSIVE trim_start_matches(_, _)
trim_start_matches(t, c) ==
    IF t # << >> /\ t[1] = c THEN trim_start_matches(Tail(t), c) ELSE t

\* tokens.last(): << >> is None, <<t>> is Some(t)
last_of(tokens) == IF tokens = << >> THEN << >> ELSE << tokens[Len(tokens)] >>

\* what a suggest function gives: ok is FALSE where it panics
Suggestions(ok, words) == [ok |-> ok, words |-> words]

\* a slip: the trailing whitespace is not looked at
suggest_subcommands_filtered(subs, last_token, input) ==
    LET keep(s) == last_token = << >> \/ starts_with(s.name, last_token[1])
        kept == SelectSeq(subs, keep)
    IN Suggestions(TRUE, [k \in 1..Len(kept) |-> kept[k].name])

\* a slip: the last token is not looked at
suggest_subcommands_all(subs, last_token, input) ==
    Suggestions(TRUE, [k \in 1..Len(subs) |-> subs[k].name])

\* CommandManager::suggest_subcommands; input.chars().last().unwrap() is
\* evaluated for each sub-command
suggest_subcommands(subs, last_token, input) ==
    IF subs # << >> /\ input = << >> THEN Suggestions(FALSE, << >>)
    ELSE LET keep(s) ==
                 \/ is_whitespace(input[Len(input)])
                 \/ last_token = << >>
                 \/ starts_with(s.name, last_token[1])
             kept == SelectSeq(subs, keep)
         IN Suggestions(TRUE, [k \in 1..Len(kept) |-> kept[k].name])

\* format!("--{}", opt.name)
option_flag(name) == <<"-","-">> \o name

\* a slip: the options that are on the line are offered again
suggest_options_again(options, tokens, input) ==
    IF input = << >> THEN Suggestions(FALSE, << >>)
    ELSE LET last_char == input[Len(input)]
             keep(opt) ==
                 \/ is_whitespace(last_char)
                 \/ last_char = "-"
                 \/ tokens = << >>
                 \/ starts_with(opt, trim_start_matches(tokens[Len(tokens)], "-"))
             kept == SelectSeq(options, keep)
         IN Suggestions(TRUE, [k \in 1..Len(kept) |-> option_flag(kept[k])])

\* CommandManager::suggest_options
suggest_options(options, tokens, input) ==
    IF input = << >> THEN Suggestions(FALSE, << >>)
    ELSE LET last_char == input[Len(input)]
             keep(opt) ==
                 \/ is_whitespace(last_char)
                 \/ last_char = "-"
                 \/ tokens = << >>
                 \/ starts_with(opt, trim_start_matches(tokens[Len(tokens)], "-"))
             absent(opt) == ~contains(tokens, option_flag(opt))
             kept == SelectSeq(SelectSeq(options, keep), absent)
         IN Suggestions(TRUE, [k \in 1..Len(kept) |-> option_flag(kept[k])])

\* a slip: without a token every command is offered
no_tokens_candidates_all(cmds) == [k \in 1..Len(cmds) |-> cmds[k].name]

\* if tokens.is_empty() { return Ok((0, vec![])); }
no_tokens_candidates(cmds) == << >>

\* a slip: the first token is not looked at
top_level_candidates_all(cmds, cmd_name) == [k \in 1..Len(cmds) |-> cmds[k].name]

\* the commands whose name starts with the first token
top_level_candidates(cmds, cmd_name) ==
    LET keep(cmd) == starts_with(cmd.name, cmd_name)
        kept == SelectSeq(cmds, keep)
    IN [k \in 1..Len(kept) |-> kept[k].name]

\* what complete returns: ret is "Ok" ("panic" where it panics), start the
\* offset the candidates replace from, candidates their replacement words
Completion(ret, start, candidates) ==
    [ret |-> ret, start |-> start, candidates |-> candidates]

\* Completer::complete
complete(cmds, line, pos) ==
    LET input == SubSeq(line, 1, pos)
        tokens == unwrap_or_default(shlex_split(input))
    IN IF tokens = << >> THEN Completion("Ok", 0, no_tokens_candidates(cmds))
       ELSE LET c == find_command(cmds, tokens[1]) IN
       IF c = 0 THEN Completion("Ok", 0, top_level_candidates(cmds, tokens[1]))
       ELSE LET last_sub_cmd == find_deepest_subcommand(cmds[c].sub_commands, tokens)
                node == IF last_sub_cmd = << >> THEN cmds[c] ELSE last_sub_cmd[1]
                suggestions ==
                    IF node.sub_commands = << >>
                    THEN suggest_options(node.options, tokens, input)
                    ELSE suggest_subcommands(node.sub_commands, last_of(tokens), input)
            IN IF suggestions.ok
               THEN Completion("Ok", start_pos(input), suggestions.words)
               ELSE Completion("panic", 0, << >>)

\* ------------------------------------------------------------------- state

VARIABLES
    commands,         \* CommandManager.commands
    line,             \* the line last handed to execute or read by the loop
    result,           \* what execute did with it
    handler_ret,      \* what the handler returned: "Ok", "Err", "none" before any call
    selected_server,  \* State.selected_server: << >> is None, <<server>> is Some
    server_names,     \* State.server_names
    pc,               \* where the read loop is
    input,            \* what readline returned: "line" or "interrupt"
    context,          \* the Context value the loop holds
    context_chan,     \* the channel context_tx -> context_rx
    child,            \* the server processes: state, lines put on stdout, last write to stdin
    reader,           \* the stdout reader thread of each process
    print_queue,      \* complete lines handed to the external printer, not yet on the terminal
    term_cur,         \* the pieces on the terminal of the unit (prompt or line) being drawn
    emitted,          \* per process, the lines completed on the terminal, in order
    prompt_drawn,     \* the prompt of the current readline is on the terminal
    treated,          \* how the last thing readline returned was treated
    completion,       \* the last call of complete: line, pos and what it returned
    mods,             \* the mods directory of the selected server and the update of it
    call,             \* the last call of a helper function: its arguments and what it returned
    disk              \* the files the program keeps: the directories under instances/,
                      \* the jars and the saved config of the server s1

resolver_vars == <<commands, line, result>>

engine_vars ==
    <<handler_ret, selected_server, server_names, pc, input, context, context_chan,
      child, reader, print_queue, term_cur, emitted, prompt_drawn, treated>>

other_vars == <<completion, mods, call, disk>>

vars == <<resolver_vars, engine_vars, other_vars>>

NoOutcome == Outcome("none", None, << >>)

\* before any call of complete
NoCompletion == [kind |-> "none"]

\* no update of the mods has been asked for
NoUpdate ==
    [pc |-> "none", task |-> << >>, finished |-> << >>, joined |-> 0, next |-> 1,
     attempted |-> {}, failed |-> {}]

\* the disk with the directories dirs under instances/; of the directory of
\* the server s1 it holds the jar files and the config file as last saved
Disk(dirs) ==
    [instances |-> dirs,
     jars |-> { <<"s","e","r","v","e","r",".","j","a","r">> },
     config |-> [start_command |-> << <<"j","a","v","a">>, <<"-","X","m","x","4","G">>, <<"-","X","m","s","4","G">>, <<"-","j","a","r">>, <<"s","e","r","v","e","r",".","j","a","r">>, <<"n","o","g","u","i">> >>,
                 java_home |-> << >>]]

\* no helper function has been called
NoCall == [fn |-> "none"]

InitOther ==
    /\ completion = NoCompletion
    /\ mods = NoUpdate
    /\ call = NoCall
    /\ disk = Disk(Range(server_names))

\* ---------------------------------------------------------- context engine
\* enum Context { Default, MinecraftServer(BufWriter<ChildStdin>) }: the handle
\* is the number of the process whose stdin it writes to.

Default == [kind |-> "Default", h |-> 0]

MinecraftServer(h) == [kind |-> "MinecraftServer", h |-> h]

\* Server processes that can be started in one run.
MaxChildren == 2
\* Lines the server processes write to their stdout in one run, all together.
MaxOut == 2

Children == 1..MaxChildren

\* the line sent to the server on an interrupt
SHUTDOWN_LINE == <<"s","t","o","p">>

NEWLINE == <<"\n">>

\* State::new, and the loop before its first readline: no server selected, an
\* empty channel, Context::Default, no process started.
InitEngine(names) ==
    /\ handler_ret = "none"
    /\ selected_server = << >>
    /\ server_names = names
    /\ pc = "readline"
    /\ input = "none"
    /\ context = Default
    /\ context_chan = << >>
    /\ child = [c \in Children |-> [st |-> "unborn", out |-> 0, stdin |-> << >>]]
    /\ reader = [c \in Children |-> [pc |-> "none", read |-> 0]]
    /\ print_queue = << >>
    /\ term_cur = << >>
    /\ emitted = [c \in Children |-> << >>]
    /\ prompt_drawn = FALSE
    /\ treated = [how |-> "none", kind |-> "Default", h |-> 0]

\* a slip: the nodes of the names are added to the children select has
update_server_names_append(cmds, names) ==
    [i \in 1..Len(cmds) |->
        IF cmds[i].name = <<"s","e","l","e","c","t">>
        THEN [cmds[i] EXCEPT !.sub_commands =
                 @ \o [k \in 1..Len(names) |-> Node(names[k], << >>, << >>, None)]]
        ELSE cmds[i]]

\* State::update_server_names: the children of `select` are replaced as a whole
\* by one node for each server name
update_server_names(cmds, names) ==
    [i \in 1..Len(cmds) |->
        IF cmds[i].name = <<"s","e","l","e","c","t">>
        THEN [cmds[i] EXCEPT !.sub_commands =
                 [k \in 1..Len(names) |-> Node(names[k], << >>, << >>, None)]]
        ELSE cmds[i]]

\* the directories under instances/ at startup
ServerNameLists == {<< >>, << <<"s","1">> >>}

\* the lines typed at the prompt
InputLines == {<<"s","t","a","r","t">>, <<"s","e","l","e","c","t"," ","s","1">>, <<"s","t","o","p">>, <<"e","x","i","t">>}

Init ==
    /\ \E names \in ServerNameLists :
        /\ commands = update_server_names(create_commands, names)
        /\ InitEngine(names)
    /\ line = << >>
    /\ result = NoOutcome
    /\ InitOther

\* ------------------------------------------------------------- the handlers
\* A handler acts on selected_server, the processes and the channel and sets
\* handler_ret; next_pc is where the loop goes when the handler returns.

handler_vars == <<selected_server, child, reader, context_chan>>

\* struct Server { name, config }
Server(name, config) == [name |-> name, config |-> config]

\* struct Config: the start command, kept as the tokens StartCommand::split
\* gives, and java_home (<< >> is None); fork, game version and hash are
\* left out
Config(start_command, java_home) ==
    [start_command |-> start_command, java_home |-> java_home]

\* the config State::select_server loads for a server: the start command of
\* Config::new with the jar of the directory
loaded_config ==
    Config(<< <<"j","a","v","a">>, <<"-","X","m","x","4","G">>, <<"-","X","m","s","4","G">>, <<"-","j","a","r">>, <<"s","e","r","v","e","r",".","j","a","r">>, <<"n","o","g","u","i">> >>, << >>)

\* tokens.iter_mut().find(pred).unwrap() followed by the assignment of a new
\* token: ok is FALSE where unwrap panics
replace_first(tokens, I, new) ==
    IF I = {} THEN [ok |-> FALSE, value |-> tokens]
    ELSE [ok |-> TRUE, value |-> [tokens EXCEPT ![Min(I)] = new]]

\* a slip: the new token is the value without the flag
set_memory_bare(tokens, flag, value) ==
    replace_first(tokens, {i \in 1..Len(tokens) : contains_str(tokens[i], flag)}, value)

\* StartCommand::set_max_memory and set_min_memory
set_memory(tokens, flag, value) ==
    replace_first(tokens, {i \in 1..Len(tokens) : contains_str(tokens[i], flag)},
                  flag \o value)

\* StartCommand::set_jar
set_jar(tokens, jar_name) ==
    replace_first(tokens, {i \in 1..Len(tokens) : ends_with(tokens[i], <<".","j","a","r">>)},
                  jar_name)

\* CommandManager::select_handler with State::select_server: the name is the
\* second token; an unknown name, an unreadable config or a directory without
\* a jar is an error and leaves the selection as it was.
select_handler_call(tokens) ==
    /\ IF Len(tokens) < 2 \/ ~contains(server_names, tokens[2])
       THEN handler_ret' = "Err" /\ UNCHANGED selected_server
       ELSE \/ handler_ret' = "Err" /\ UNCHANGED selected_server
            \/ /\ handler_ret' = "Ok"
               /\ selected_server' = << Server(tokens[2], loaded_config) >>
    /\ UNCHANGED <<child, reader, context_chan>>

\* Config::save: the file may fail to be created or written
save_results == {"Ok", "Err"}

\* set_max_memory_handler and set_min_memory_handler (flag is -Xmx or -Xms):
\* the value is tokens.get(1); the start command of the selected server is
\* changed in memory, unwrapped, and then the config is saved.
set_memory_handler_call(flag, tokens) ==
    /\ IF Len(tokens) < 2 \/ selected_server = << >>
       THEN handler_ret' = "Err" /\ UNCHANGED selected_server
       ELSE LET server == selected_server[1]
                sc == set_memory(server.config.start_command, flag, tokens[2])
            IN IF ~sc.ok
               THEN handler_ret' = "panic" /\ UNCHANGED selected_server
               ELSE /\ selected_server' =
                        << [server EXCEPT !.config.start_command = sc.value] >>
                    /\ handler_ret' \in save_results
    /\ UNCHANGED <<child, reader, context_chan>>

\* set_java_home_handler: the path is tokens.get(2); whether it exists
\* (fs::metadata) is up to the disk
set_java_home_handler_call(tokens) ==
    /\ IF Len(tokens) < 3
       THEN handler_ret' = "Err" /\ UNCHANGED selected_server
       ELSE \/ handler_ret' = "Err" /\ UNCHANGED selected_server
            \/ IF selected_server = << >>
               THEN handler_ret' = "Err" /\ UNCHANGED selected_server
               ELSE /\ selected_server' =
                        << [selected_server[1] EXCEPT !.config.java_home = << tokens[3] >>] >>
                    /\ handler_ret' \in save_results
    /\ UNCHANGED <<child, reader, context_chan>>

\* the file name fabric_meta::download_server returns
NEW_JAR == <<"n","e","w",".","j","a","r">>

\* update_server_handler: versions are fetched, the new jar is downloaded and
\* the old one removed, each of which may fail; then the jar of the start
\* command is replaced in memory and the config is saved.
update_server_handler_call(tokens) ==
    /\ IF selected_server = << >>
       THEN handler_ret' = "Err" /\ UNCHANGED selected_server
       ELSE \/ handler_ret' = "Err" /\ UNCHANGED selected_server
            \/ LET server == selected_server[1]
                   sc == set_jar(server.config.start_command, NEW_JAR)
               IN IF ~sc.ok
                  THEN handler_ret' = "panic" /\ UNCHANGED selected_server
                  ELSE /\ selected_server' =
                           << [server EXCEPT !.config.start_command = sc.value] >>
                       /\ handler_ret' \in save_results
    /\ UNCHANGED <<child, reader, context_chan>>

\* the processes not started yet
Unborn == {c \in Children : child[c].st = "unborn"}

\* what the start handler publishes once the process runs
published_context(c) == MinecraftServer(c)

\* CommandManager::start_server_handler: an error without a selected server,
\* and whenever the directory cannot be entered or the process cannot be
\* spawned; otherwise the process runs, a thread starts draining its stdout and
\* the handle of its stdin is sent on context_tx before the handler returns.
start_server_handler_call ==
    \/ /\ handler_ret' = "Err"
       /\ UNCHANGED handler_vars
    \/ /\ selected_server # << >>
       /\ Unborn # {}
       /\ LET c == Min(Unborn) IN
            /\ child' = [child EXCEPT ![c].st = "running"]
            /\ reader' = [reader EXCEPT ![c].pc = "reading"]
            /\ context_chan' = Append(context_chan, published_context(c))
       /\ handler_ret' = "Ok"
       /\ UNCHANGED selected_server

\* the handlers whose effect is outside the state of the model
other_handler_call ==
    /\ handler_ret' \in {"Ok", "Err"}
    /\ UNCHANGED handler_vars

\* the call handler(self, state, &tokens) at the end of execute;
\* exit_handler is process::exit(0), and a panic ends the program
call_handler(o) ==
    IF o.kind \in {"blank"} THEN
        handler_ret' = "Ok" /\ pc' = "readline" /\ UNCHANGED handler_vars
    ELSE IF o.kind = "panic" THEN
        handler_ret' = "panic" /\ pc' = "crashed" /\ UNCHANGED handler_vars
    ELSE IF o.kind # "handler" THEN
        handler_ret' = "Err" /\ pc' = "readline" /\ UNCHANGED handler_vars
    ELSE IF o.handler = "exit_handler" THEN
        handler_ret' = "none" /\ pc' = "exited" /\ UNCHANGED handler_vars
    ELSE /\ IF o.handler = "select_handler" THEN select_handler_call(o.tokens)
            ELSE IF o.handler = "start_server_handler" THEN start_server_handler_call
            ELSE IF o.handler = "set_max_memory_handler"
                 THEN set_memory_handler_call(<<"-","X","m","x">>, o.tokens)
            ELSE IF o.handler = "set_min_memory_handler"
                 THEN set_memory_handler_call(<<"-","X","m","s">>, o.tokens)
            ELSE IF o.handler = "set_java_home_handler"
                 THEN set_java_home_handler_call(o.tokens)
            ELSE IF o.handler = "update_server_handler"
                 THEN update_server_handler_call(o.tokens)
            ELSE other_handler_call
         /\ pc' = IF handler_ret' = "panic" THEN "crashed" ELSE "readline"

\* ------------------------------------------------------------ the read loop

printer_vars == <<print_queue, term_cur, emitted>>

\* readline returns a line; the prompt was drawn first
ReadLine ==
    /\ pc = "readline"
    /\ prompt_drawn
    /\ \E l \in InputLines : line' = l
    /\ input' = "line"
    /\ pc' = "poll"
    /\ prompt_drawn' = FALSE
    /\ UNCHANGED <<commands, result, handler_ret, selected_server, server_names, context,
                   context_chan, child, reader, printer_vars, treated>>
    /\ UNCHANGED other_vars

\* readline returns an interrupt or the end of input
Interrupt ==
    /\ pc = "readline"
    /\ prompt_drawn
    /\ input' = "interrupt"
    /\ pc' = "poll"
    /\ prompt_drawn' = FALSE
    /\ UNCHANGED <<commands, line, result, handler_ret, selected_server, server_names,
                   context, context_chan, child, reader, printer_vars, treated>>
    /\ UNCHANGED other_vars

\* a slip: the message is taken off the channel and dropped
try_recv_dropped(ctx, chan) == ctx

\* context_rx.try_recv(): the oldest message if there is one
try_recv(ctx, chan) == IF chan = << >> THEN ctx ELSE Head(chan)

\* the poll of the channel, once for each return of readline
Poll ==
    /\ pc = "poll"
    /\ context' = try_recv(context, context_chan)
    /\ context_chan' = IF context_chan = << >> THEN << >> ELSE Tail(context_chan)
    /\ pc' = "treat"
    /\ UNCHANGED <<commands, line, result, handler_ret, selected_server, server_names,
                   input, child, reader, printer_vars, prompt_drawn, treated>>
    /\ UNCHANGED other_vars

\* a slip: every line is dispatched
dispatches_always(ctx) == TRUE

\* whether a line is dispatched in this context (otherwise it is forwarded)
dispatches(ctx) == ctx.kind = "Default"

\* Context::Default: the line is tokenized and dispatched
Dispatch ==
    /\ pc = "treat"
    /\ input = "line"
    /\ dispatches(context)
    /\ result' = execute(commands, line)
    /\ call_handler(execute(commands, line))
    /\ treated' = [how |-> "dispatched", kind |-> context.kind, h |-> context.h]
    /\ UNCHANGED <<commands, line, server_names, input, context, printer_vars,
                   prompt_drawn>>
    /\ UNCHANGED other_vars

\* Context::MinecraftServer(h): the line and a newline are written to h, and
\* h is flushed
Forward ==
    /\ pc = "treat"
    /\ input = "line"
    /\ ~dispatches(context)
    /\ child' = [child EXCEPT ![context.h].stdin = line \o NEWLINE]
    /\ treated' = [how |-> "forwarded", kind |-> context.kind, h |-> context.h]
    /\ pc' = "readline"
    /\ UNCHANGED <<commands, line, result, handler_ret, selected_server, server_names,
                   input, context, context_chan, reader, printer_vars, prompt_drawn>>
    /\ UNCHANGED other_vars

\* a slip: an interrupt ends the program at once
after_interrupt_exit(ctx) == "exited"

\* where the loop goes on an interrupt: out of the program from Default, into
\* the wait for Default while a process is attached
after_interrupt(ctx) == IF ctx.kind = "Default" THEN "exited" ELSE "wait_default"

\* an interrupt: exit from Default; while attached the shutdown line is written
\* to h and flushed, and the loop waits for the context to revert
TreatInterrupt ==
    /\ pc = "treat"
    /\ input = "interrupt"
    /\ child' = IF context.kind = "Default" THEN child
                ELSE [child EXCEPT ![context.h].stdin = SHUTDOWN_LINE \o NEWLINE]
    /\ treated' = [how |-> IF context.kind = "Default" THEN "exit" ELSE "shutdown",
                   kind |-> context.kind, h |-> context.h]
    /\ pc' = after_interrupt(context)
    /\ UNCHANGED <<commands, line, result, handler_ret, selected_server, server_names,
                   input, context, context_chan, reader, printer_vars, prompt_drawn>>
    /\ UNCHANGED other_vars

\* the blocking wait after the shutdown line: the program exits once the
\* context received is Default
WaitDefault ==
    /\ pc = "wait_default"
    /\ context_chan # << >>
    /\ context' = Head(context_chan)
    /\ context_chan' = Tail(context_chan)
    /\ pc' = IF Head(context_chan).kind = "Default" THEN "exited" ELSE "wait_default"
    /\ UNCHANGED <<commands, line, result, handler_ret, selected_server, server_names,
                   input, child, reader, printer_vars, prompt_drawn, treated>>
    /\ UNCHANGED other_vars

\* the steps of the loop that run no handler
LoopStep == ReadLine \/ Interrupt \/ Poll \/ Forward \/ TreatInterrupt \/ WaitDefault

MainLoop == LoopStep \/ Dispatch

\* ----------------------------------------------------- the server process

loop_vars ==
    <<commands, line, result, handler_ret, selected_server, server_names, pc, input,
      context, treated>>

RECURSIVE sum_out(_)
sum_out(c) == IF c = 0 THEN 0 ELSE child[c].out + sum_out(c - 1)

\* the lines written so far by all the processes
TotalOut == sum_out(MaxChildren)

\* the process writes a line to its stdout
ChildOutput(c) ==
    /\ child[c].st = "running"
    /\ TotalOut < MaxOut
    /\ child' = [child EXCEPT ![c].out = @ + 1]
    /\ UNCHANGED <<loop_vars, context_chan, reader, printer_vars, prompt_drawn>>
    /\ UNCHANGED other_vars

\* the process ends (on the shutdown line or by itself): its stdout closes
ChildExit(c) ==
    /\ child[c].st = "running"
    /\ child' = [child EXCEPT ![c].st = "exited"]
    /\ UNCHANGED <<loop_vars, context_chan, reader, printer_vars, prompt_drawn>>
    /\ UNCHANGED other_vars

Child == \E c \in Children : ChildOutput(c) \/ ChildExit(c)

\* ------------------------------------------------- the stdout reader thread

\* a slip: the reader writes to the terminal itself
external_print_raw(c) ==
    /\ term_cur' = Append(term_cur, [p |-> c, n |-> reader[c].read + 1])
    /\ UNCHANGED print_queue

\* ExternalPrinter::print under the Mutex: the complete line is queued for the
\* terminal while the Mutex is held
external_print(c) ==
    /\ print_queue' = Append(print_queue, [p |-> c, n |-> reader[c].read + 1])
    /\ UNCHANGED term_cur

\* the reader has a line to forward: it locks the printer and prints the line
ReaderPrint(c) ==
    /\ reader[c].pc = "reading"
    /\ reader[c].read < child[c].out
    /\ external_print(c)
    /\ reader' = [reader EXCEPT ![c].read = @ + 1]
    /\ UNCHANGED <<loop_vars, context_chan, child, emitted, prompt_drawn>>
    /\ UNCHANGED other_vars

\* a slip: the reader takes an empty pipe for the end of stdout
at_eof_early(c) == reader[c].read = child[c].out

\* the reader sees the end of the stdout of its process: every line was read
\* and the process has ended
at_eof(c) == reader[c].read = child[c].out /\ child[c].st = "exited"

\* a slip: the reader ends without a word
eof_messages_none == << >>

\* what the reader sends on context_tx when it ends
eof_messages == << Default >>

\* at the end of stdout the reader sends Context::Default and terminates
ReaderEof(c) ==
    /\ reader[c].pc = "reading"
    /\ at_eof(c)
    /\ context_chan' = context_chan \o eof_messages
    /\ reader' = [reader EXCEPT ![c].pc = "done"]
    /\ UNCHANGED <<loop_vars, child, printer_vars, prompt_drawn>>
    /\ UNCHANGED other_vars

Reader == \E c \in Children : ReaderPrint(c) \/ ReaderEof(c)

\* ------------------------------------------------------------ the terminal
\* One owner draws on the terminal: the prompt of readline and the lines of
\* the print queue, each in two pieces.

PROMPT == [p |-> 0, n |-> 0]

BeginPrompt ==
    /\ pc = "readline"
    /\ ~prompt_drawn
    /\ term_cur = << >>
    /\ term_cur' = << PROMPT >>
    /\ UNCHANGED <<loop_vars, context_chan, child, reader, print_queue,
                   emitted, prompt_drawn>>
    /\ UNCHANGED other_vars

EndPrompt ==
    /\ term_cur = << PROMPT >>
    /\ term_cur' = << >>
    /\ prompt_drawn' = TRUE
    /\ UNCHANGED <<loop_vars, context_chan, child, reader, print_queue,
                   emitted>>
    /\ UNCHANGED other_vars

BeginLine ==
    /\ term_cur = << >>
    /\ print_queue # << >>
    /\ term_cur' = << Head(print_queue) >>
    /\ print_queue' = Tail(print_queue)
    /\ UNCHANGED <<loop_vars, context_chan, child, reader, emitted,
                   prompt_drawn>>
    /\ UNCHANGED other_vars

EndLine ==
    /\ term_cur # << >>
    /\ term_cur[1] # PROMPT
    /\ emitted' = [emitted EXCEPT ![term_cur[1].p] = Append(@, term_cur[1].n)]
    /\ term_cur' = Tail(term_cur)
    /\ UNCHANGED <<loop_vars, context_chan, child, reader, print_queue,
                   prompt_drawn>>
    /\ UNCHANGED other_vars

Terminal == BeginPrompt \/ EndPrompt \/ BeginLine \/ EndLine

Next == MainLoop \/ Child \/ Reader \/ Terminal

Spec == Init /\ [][Next]_vars

\* The threads are scheduled fairly: the reader thread, the owner of the
\* terminal, and the read loop, whose readline returns in the end (a line, an
\* interrupt or the end of input).  Nothing is asked of a handler, which may
\* block, nor of the server process, which may run on.
SpecFair ==
    Spec /\ WF_vars(LoopStep) /\ WF_vars(Reader) /\ WF_vars(Terminal)

\* ------------------------------------------------- inputs of the resolver
\* CommandManager.commands is a public field and SubCommand nests without a
\* limit: besides create_commands and the tree of the tests, execute is driven
\* on chains cmd1 -> sub1 -> sub2 -> ... in which any subset of the levels
\* carries a handler, with a second child alt1 declared after sub1.

DIGITS == <<"1", "2", "3", "4", "5", "6", "7", "8", "9">>

level_name(k) == <<"s","u","b">> \o <<DIGITS[k]>>

RECURSIVE chain(_, _)
chain(k, hs) ==
    Node(level_name(k),
         IF k < MaxDepth THEN << chain(k + 1, hs) >> ELSE << >>,
         << <<"o","p","t","1">> >>,
         IF k \in hs THEN "sub_handler_" \o DIGITS[k] ELSE None)

chain_commands(hs) ==
    << Node(<<"c","m","d","1">>,
            << chain(1, hs), Node(<<"a","l","t","1">>, << >>, << >>, "alt1_handler") >>,
            << >>,
            IF 0 \in hs THEN "cmd1_handler" ELSE None),
       Node(<<"c","m","d","2">>, << >>, << >>, None) >>

Trees ==
    {create_commands, test_commands} \cup {chain_commands(hs) : hs \in SUBSET (0..MaxDepth)}

\* words: the names of the chain trees, a proper prefix of each, an unknown word
Words ==
    {<<"c","m","d","1">>, <<"c","m","d","2">>, <<"c","m","d">>, <<"a","l","t","1">>, <<"s","u","b">>, <<"n","o","p","e">>}
        \cup {level_name(k) : k \in 1..MaxDepth}

RECURSIVE join_words(_)
join_words(ws) ==
    IF Len(ws) = 0 THEN << >>
    ELSE IF Len(ws) = 1 THEN ws[1]
    ELSE ws[1] \o <<" ">> \o join_words(Tail(ws))

WordLines ==
    UNION {{join_words(ws) : ws \in [1..n -> Words]} : n \in 1..MaxTokens}

\* lines typed at the program's own tree
ProgramLines ==
    {<<"l","i","s","t">>, <<"s","e","t">>, <<"g","e","n","e","r","a","t","e">>, <<"l","i","s","t"," ","s","e","r","v","e","r","s">>, <<"l","i","s"," ","s","e","r","v","e","r","s">>, <<"l","i","s","t"," ","s","e","r","v">>,
     <<"a","d","d"," ","m","o","d"," ","s","e","r","v","e","r">>, <<"a","d","d"," ","s","e","r","v","e","r"," ","m","o","d">>, <<"s","e","t"," ","m","a","x","-","m","e","m","o","r","y"," ","2","G">>, <<"s","e","l">>,
     <<"s","e","l","e","c","t">>, <<"s","e","l","e","c","t","e","d">>, <<"s","t","a","r","t">>, <<"e","x","i","t"," ","n","o","w">>, <<"u","p","d","a","t","e"," ","s","e","r","v","e","r"," ","-","-","g","a","m","e"," ","1",".","2","1">>}

\* blank, whitespace-only, quoted, unterminated and comment-only lines
SpecialLines ==
    {<< >>, <<" ">>, <<" ","\t">>, <<"'","c","m","d","1","'"," ","s","u","b","1">>, <<"\"","c","m","d","1","\""," ","'","s","u","b","1","'">>, <<"'","c","m","d","1">>, <<"c","m","d","1"," ","\"","s","u","b","1">>,
     <<"c","m","d","1","\\">>, <<"#","c","m","d","1">>, <<" ","c","m","d","1"," "," ","s","u","b","1"," ">>}

ExecLines == WordLines \cup ProgramLines \cup SpecialLines

\* --------------------------------------------------- the resolver, driven

InitExecute ==
    /\ commands \in Trees
    /\ line = << >>
    /\ result = NoOutcome
    /\ InitEngine(<< >>)
    /\ InitOther

\* one call of execute on a fresh manager; the handler called is recorded in result
Execute ==
    /\ result = NoOutcome
    /\ \E l \in ExecLines :
        /\ line' = l
        /\ result' = execute(commands, l)
    /\ UNCHANGED <<commands, engine_vars>>
    /\ UNCHANGED other_vars

NextExecute == Execute

SpecExecute == InitExecute /\ [][NextExecute]_vars


\* ------------------------------------------------- claims on the resolver

\* the tokens of the line execute was called with (<< >> when it has none)
LineTokens ==
    LET sp == shlex_split(line) IN IF sp.ok THEN sp.tokens ELSE << >>

\* execute was called with a line that tokenizes to the tokens toks, at least one
CalledWith(toks) ==
    /\ result.kind # "none"
    /\ ~trim_is_empty(line)
    /\ toks # << >>

\* the top-level commands whose name is exactly the first token
Named(toks) == {i \in 1..Len(commands) : commands[i].name = toks[1]}

\* the chain of nodes matched below a list of children: at each level the
\* first child in declaration order whose name is one of the tokens
RECURSIVE matched_chain(_, _)
matched_chain(subs, tokens) ==
    LET I == {i \in 1..Len(subs) : \E j \in 1..Len(tokens) : tokens[j] = subs[i].name}
    IN IF I = {} THEN << >>
       ELSE << subs[Min(I)] >> \o matched_chain(subs[Min(I)].sub_commands, tokens)

\* the handler of the deepest node of a chain that has one, None if none has
RECURSIVE deepest_handler(_)
deepest_handler(ch) ==
    IF ch = << >> THEN None
    ELSE IF ch[Len(ch)].handler # None THEN ch[Len(ch)].handler
    ELSE deepest_handler(SubSeq(ch, 1, Len(ch) - 1))

\* no token is exactly the name of a child of the command
NoChildNamed(cmd, toks) ==
    \A i \in 1..Len(cmd.sub_commands) : \A j \in 1..Len(toks) :
        toks[j] # cmd.sub_commands[i].name

\* C1: a first token that is not exactly the name of a top-level command gives
\* the unknown-command error and no handler is called; a prefix of a name is
\* unknown too.
C1_UnknownCommand ==
    LET toks == LineTokens IN
    (CalledWith(toks) /\ Named(toks) = {})
        => (result.kind = "unknown_command" /\ result.handler = None)

\* C1 witness: execute was called with a first token that is a proper prefix of
\* a command name and answered unknown command.
C1_Witness ==
    LET toks == LineTokens IN
    /\ CalledWith(toks)
    /\ Named(toks) = {}
    /\ \E i \in 1..Len(commands) : starts_with(commands[i].name, toks[1])
    /\ result.kind = "unknown_command"

\* C2: the handler called is that of the deepest matched node that has one,
\* an ancestor on the matched chain before the top-level command, and the
\* top-level command's only when no node of the chain has a handler.
C2_NearestAncestorHandler ==
    LET toks == LineTokens IN
    (CalledWith(toks) /\ Named(toks) # {})
        => LET cmd == commands[Min(Named(toks))]
               h == or(deepest_handler(matched_chain(cmd.sub_commands, toks)), cmd.handler)
           IN h # None => (result.kind = "handler" /\ result.handler = h)

\* C3: a known command with no handler on the command or on the matched chain
\* gives the no-handler error and nothing is called.
C3_NoHandler ==
    LET toks == LineTokens IN
    (CalledWith(toks) /\ Named(toks) # {})
        => LET cmd == commands[Min(Named(toks))]
               ch == matched_chain(cmd.sub_commands, toks)
           IN (cmd.handler = None /\ \A k \in 1..Len(ch) : ch[k].handler = None)
                  => (result.kind = "no_handler" /\ result.handler = None)

\* C3 witness: a chain of two matched nodes below a command, none of them with
\* a handler, answered with the no-handler error.
C3_Witness ==
    LET toks == LineTokens IN
    /\ CalledWith(toks)
    /\ Named(toks) # {}
    /\ LET cmd == commands[Min(Named(toks))]
           ch == matched_chain(cmd.sub_commands, toks)
       IN /\ cmd.handler = None
          /\ Len(ch) >= 2
          /\ \A k \in 1..Len(ch) : ch[k].handler = None
    /\ result.kind = "no_handler"

\* C4: when no token is exactly the name of a child of the top-level command
\* the result is the command's own handler or the no-handler error, never a
\* child's handler, even when a token is a proper prefix of a child's name.
C4_ExactMatchOnly ==
    LET toks == LineTokens IN
    (CalledWith(toks) /\ Named(toks) # {})
        => LET cmd == commands[Min(Named(toks))]
           IN NoChildNamed(cmd, toks)
                  => IF cmd.handler = None
                     THEN result.kind = "no_handler" /\ result.handler = None
                     ELSE result.kind = "handler" /\ result.handler = cmd.handler

\* C4 witness: a token is a proper prefix of the name of a child that has a
\* handler, no token is a child's name, and the command's own handler is called.
C4_Witness ==
    LET toks == LineTokens IN
    /\ CalledWith(toks)
    /\ Named(toks) # {}
    /\ LET cmd == commands[Min(Named(toks))]
       IN /\ NoChildNamed(cmd, toks)
          /\ \E i \in 1..Len(cmd.sub_commands) : \E j \in 2..Len(toks) :
                /\ starts_with(cmd.sub_commands[i].name, toks[j])
                /\ cmd.sub_commands[i].handler # None
          /\ cmd.handler # None
          /\ result.kind = "handler"
          /\ result.handler = cmd.handler

\* -------------------------------------------- claims on the context engine

\* a step of the read loop out of "treat"
LoopTreats == pc = "treat" /\ pc' # "treat"

C11_NoFatalInput ==
    /\ result.kind # "panic"
    /\ (result.kind # "none" /\ ~trim_is_empty(line) /\ ~shlex_split(line).ok)
          => result.kind = "parse_error"

\* ------------------------------------------------- the handlers, driven
\* Commands typed one after another at the prompt of a program with one
\* server directory, each run to the return of its handler.

HandlerLines ==
    {<<"s","e","l","e","c","t"," ","s","1">>, <<"s","e","l","e","c","t"," ","n","o","p","e">>, <<"s","e","l","e","c","t">>, <<"s","e","l","e","c","t","e","d">>, <<"s","e","t">>,
     <<"s","e","t"," ","m","a","x","-","m","e","m","o","r","y"," ","2","G">>, <<"s","e","t"," ","m","i","n","-","m","e","m","o","r","y"," ","1","G">>, <<"s","e","t"," ","m","a","x","-","m","e","m","o","r","y">>, <<"s","e","t"," ","j","a","v","a"," ","/","j","d","k">>,
     <<"s","e","t"," ","j","a","v","a">>,
     <<"u","p","d","a","t","e"," ","s","e","r","v","e","r">>, <<"n","o","p","e">>, <<"#">>, <<"e","x","i","t">>}

InitHandlers ==
    /\ commands = update_server_names(create_commands, << <<"s","1">> >>)
    /\ InitEngine(<< <<"s","1">> >>)
    /\ line = << >>
    /\ result = NoOutcome
    /\ InitOther

\* one command: execute and the handler it calls
RunCommand ==
    /\ pc = "readline"
    /\ \E l \in HandlerLines :
        /\ line' = l
        /\ \E o \in {execute(commands, l)} :
            /\ result' = o
            /\ call_handler(o)
    /\ UNCHANGED <<commands, server_names, input, context, printer_vars, prompt_drawn,
                   treated>>
    /\ UNCHANGED other_vars

NextHandlers == RunCommand

SpecHandlers == InitHandlers /\ [][NextHandlers]_vars

\* ------------------------------------------------- claims on the handlers

\* C12: a command that ends in an error leaves the selected server with its
\* config, the server names, the command tree and the context as they were,
\* and the loop goes on.
C12_ErrorLeavesState ==
    [][handler_ret' = "Err"
          => /\ UNCHANGED <<selected_server, server_names, commands, context>>
             /\ pc' = "readline"]_vars

\* ------------------------------------------------- completion, driven
\* complete is called by the line editor with the line and the cursor; here it
\* is called once on each tree of Trees, with each line of CompleteLines and
\* each cursor in the line.

CompleteLines ==
    {<<"c","m","d">>, <<"c","m","d","1"," ">>, <<"c","m","d","1"," ","s">>, <<"c","m","d","1"," ","x">>, <<"c","m","d","1"," ","s","u","b","1"," ">>, <<"c","m","d","1"," ","s","u","b","1"," ","-">>,
     <<"c","m","d","1"," ","s","u","b","1"," ","-","-">>, <<"c","m","d","1"," ","s","u","b","1"," ","-","o">>, <<"c","m","d","1"," ","s","u","b","1"," ","-","1">>, <<"c","m","d","1"," ","s","u","b","1"," ","-","-","o","p","t","1"," ","-","-">>,
     <<"c","m","d","1"," ","s","u","b","1"," ","-","-","o","p","t","1"," ">>, <<"c","m","d","1"," ","s","u","b","1"," ","-","-","o","p","t","1"," ","-","o">>, <<"c","m","d","1"," ","s","u","b","1"," ","x","-">>, <<"c","m","d","1"," ","s","u","b","1"," ","-","-","o","-">>,
     <<" ","c","m">>, <<" ","c","m","d","1","\t","s","u","b">>, <<"n","o","p","e"," ","x"," ">>, <<"c","m","d"," ","x"," ","s","u","b","1"," ","y">>, <<"c","m","d","1"," ","a","l","t","1"," ","-">>, <<"c","m","d","1"," ","s","u","b","2"," ","s","u","b","1"," ","s">>,
     <<"c","m","d","1"," ","s","u","b","1"," ","s","u","b","2"," ","-","-","o","p">>, <<"c","m","d","1"," ","'","a"," ">>, <<"c","m","d","1"," ","\"","s","\"">>, <<"#","c">>, <<" "," ">>, <<"c","m","d","1"," ","#"," ">>,
     <<"l","i","s","t"," ">>, <<"l","i","s","t"," ","m">>, <<"s","e","a","r","c","h"," ","m","o","d","s"," ","-","-","l","i","m","i","t"," ","1"," ","-","-">>, <<"s","e","t"," ","m","a","x","-","m","e","m","o","r","y"," ">>}

Complete ==
    /\ completion = NoCompletion
    /\ \E l \in CompleteLines : \E pos \in 0..Len(l) :
        /\ line' = l
        /\ completion' =
              LET r == complete(commands, l, pos)
              IN [kind |-> "complete", pos |-> pos, ret |-> r.ret, start |-> r.start,
                  candidates |-> r.candidates]
    /\ UNCHANGED <<commands, result, engine_vars, mods, call, disk>>

NextComplete == Complete

SpecComplete == InitExecute /\ [][NextComplete]_vars

\* ------------------------------------------------- claims on completion

\* line[0..cursor] of the last call of complete
Prefix == SubSeq(line, 1, completion.pos)

\* its tokens (<< >> when it has none or does not tokenize)
PrefixTokens ==
    LET sp == shlex_split(Prefix) IN IF sp.ok THEN sp.tokens ELSE << >>

\* C13: complete always returns a list of candidates, never an error or a
\* panic, and the list is empty when the prefix does not tokenize or has no
\* tokens.
C13_CompletionNeverFails ==
    completion.kind = "complete"
        => /\ completion.ret = "Ok"
           /\ PrefixTokens = << >> => completion.candidates = << >>

\* C13 witness: complete was called with a prefix whose quoting is not closed
\* and returned no candidates.
C13_Witness ==
    /\ completion.kind = "complete"
    /\ ~shlex_split(Prefix).ok
    /\ completion.ret = "Ok"
    /\ completion.candidates = << >>

\* C14: the offset complete returns is the index just after the last
\* whitespace character of the prefix, 0 when it has none, in every branch.
C14_ReplaceFromOffset ==
    completion.kind = "complete"
        => LET P == Prefix
               ws == {i \in 1..Len(P) : P[i] \in {" ", "\t", "\n"}}
           IN completion.start =
                 IF ws = {} THEN 0 ELSE CHOOSE i \in ws : \A j \in ws : j <= i

\* the elements of seq at the indices I, in the order of seq
RECURSIVE listed(_, _)
listed(seq, I) ==
    IF I = {} THEN << >>
    ELSE LET i == CHOOSE x \in I : \A y \in I : x <= y
         IN << seq[i] >> \o listed(seq, I \ {i})

\* the names of the nodes at the indices I of a list of nodes, in its order
names_at(nodes, I) ==
    LET l == listed(nodes, I) IN [k \in 1..Len(l) |-> l[k].name]

\* complete was called with a prefix whose first token names a command
Resolved(toks) ==
    completion.kind = "complete" /\ toks # << >> /\ Named(toks) # {}

\* the node completion is about: the last node of the matched chain, the
\* top-level command when the chain is empty
resolved_node(toks) ==
    LET cmd == commands[Min(Named(toks))]
        ch == matched_chain(cmd.sub_commands, toks)
    IN IF ch = << >> THEN cmd ELSE ch[Len(ch)]

\* the prefix ends in whitespace
EndsInWhitespace == Prefix # << >> /\ Prefix[Len(Prefix)] \in {" ", "\t", "\n"}

\* C15: with a first token that names no top-level command the candidates are
\* exactly the top-level commands whose name starts with the first token, in
\* declaration order, whatever follows the first token.
C15_TopLevelCandidates ==
    LET toks == PrefixTokens IN
    (completion.kind = "complete" /\ toks # << >> /\ Named(toks) = {})
        => completion.candidates =
              names_at(commands,
                       {i \in 1..Len(commands) : starts_with(commands[i].name, toks[1])})

\* C15 witness: a prefix of several tokens whose first token is a proper
\* prefix of two command names, both offered.
C15_Witness ==
    LET toks == PrefixTokens IN
    /\ completion.kind = "complete"
    /\ Len(toks) >= 2
    /\ Named(toks) = {}
    /\ Len(completion.candidates) = 2

\* C16: when the prefix ends in whitespace and the resolved node has children,
\* all its children are offered, whatever the tokens are.
C16_AllChildrenAfterSpace ==
    LET toks == PrefixTokens IN
    (Resolved(toks) /\ EndsInWhitespace /\ resolved_node(toks).sub_commands # << >>)
        => LET subs == resolved_node(toks).sub_commands
           IN completion.candidates = names_at(subs, 1..Len(subs))

\* C16 witness: after a command and one matched sub-command with children, and
\* a space, the children are offered.
C16_Witness ==
    LET toks == PrefixTokens IN
    /\ Resolved(toks)
    /\ EndsInWhitespace
    /\ Len(toks) >= 2
    /\ resolved_node(toks).sub_commands # << >>
    /\ completion.candidates # << >>

\* C17: when the prefix does not end in whitespace and the resolved node has
\* children, the candidates are exactly the children whose name starts with
\* the last token.
C17_ChildrenByPrefix ==
    LET toks == PrefixTokens IN
    (Resolved(toks) /\ ~EndsInWhitespace /\ resolved_node(toks).sub_commands # << >>)
        => LET subs == resolved_node(toks).sub_commands
           IN completion.candidates =
                 names_at(subs, {i \in 1..Len(subs) :
                                    starts_with(subs[i].name, toks[Len(toks)])})

\* C17 witness: a partial last token kept one child and dropped another.
C17_Witness ==
    LET toks == PrefixTokens IN
    /\ Resolved(toks)
    /\ ~EndsInWhitespace
    /\ Len(completion.candidates) = 1
    /\ Len(resolved_node(toks).sub_commands) = 2
    /\ completion.start = completion.pos - 1

\* the options of the resolved node whose flag is not a token, by index
NotPresent(node, toks) ==
    {i \in 1..Len(node.options) :
        \A j \in 1..Len(toks) : toks[j] # <<"-", "-">> \o node.options[i]}

\* a token without its leading dashes
RECURSIVE bare(_)
bare(t) == IF t # << >> /\ t[1] = "-" THEN bare(Tail(t)) ELSE t

\* the flags of the options at the indices I, in declaration order
flags_at(options, I) ==
    LET l == listed(options, I) IN [k \in 1..Len(l) |-> <<"-", "-">> \o l[k]]

\* C18: when options are completed, every candidate is the flag of an option
\* of the resolved node that is not already a token of the prefix.
C18_NoDuplicateFlags ==
    LET toks == PrefixTokens IN
    (Resolved(toks) /\ resolved_node(toks).sub_commands = << >>)
        => \A k \in 1..Len(completion.candidates) :
              \E i \in NotPresent(resolved_node(toks), toks) :
                  completion.candidates[k] = <<"-", "-">> \o resolved_node(toks).options[i]

\* C18 witness: the only option of the node is on the line, the prefix ends in
\* a dash, and nothing is offered.
C18_Witness ==
    LET toks == PrefixTokens IN
    /\ Resolved(toks)
    /\ resolved_node(toks).sub_commands = << >>
    /\ resolved_node(toks).options # << >>
    /\ NotPresent(resolved_node(toks), toks) = {}
    /\ Prefix[Len(Prefix)] = "-"
    /\ completion.candidates = << >>

\* C19: when the resolved node has no children, the candidates are its options
\* not yet on the line whose name starts with the last token without its
\* leading dashes, and all of those not yet on the line when the prefix ends in
\* whitespace or the last token is a single dash.
C19_OptionCandidates ==
    LET toks == PrefixTokens IN
    (Resolved(toks) /\ resolved_node(toks).sub_commands = << >>)
        => LET node == resolved_node(toks)
               t == toks[Len(toks)]
           IN completion.candidates =
                 flags_at(node.options,
                          {i \in NotPresent(node, toks) :
                              \/ EndsInWhitespace
                              \/ t = <<"-">>
                              \/ starts_with(node.options[i], bare(t))})

\* ------------------------------------------------- the update of the mods
\* list_mods_handler with --update: one download task for each available
\* update is spawned on a JoinSet (network::download_files), the tasks are
\* joined as they finish, and then the old jar of every update is removed.
\* mods holds: pc, where the handler is; task, the state of each download;
\* finished, the tasks in the order they finished; joined, how many results
\* were taken by join_next; next, the place in the loop of removals;
\* attempted, the removals tried; failed, those that failed and were logged.

\* Updates available in one run of the handler.
MaxUpdates == 3

UpdateLines == {<<"l","i","s","t"," ","m","o","d","s"," ","-","-","u","p","d","a","t","e">>, <<"l","i","s","t"," ","m","o","d","s">>}

InitMods ==
    /\ commands = update_server_names(create_commands, << <<"s","1">> >>)
    /\ line = << >>
    /\ result = NoOutcome
    /\ handler_ret = "none"
    /\ selected_server \in {<< >>, << Server(<<"s","1">>, loaded_config) >>}
    /\ server_names = << <<"s","1">> >>
    /\ pc = "readline"
    /\ input = "none"
    /\ context = Default
    /\ context_chan = << >>
    /\ child = [c \in Children |-> [st |-> "unborn", out |-> 0, stdin |-> << >>]]
    /\ reader = [c \in Children |-> [pc |-> "none", read |-> 0]]
    /\ print_queue = << >>
    /\ term_cur = << >>
    /\ emitted = [c \in Children |-> << >>]
    /\ prompt_drawn = FALSE
    /\ treated = [how |-> "none", kind |-> "Default", h |-> 0]
    /\ InitOther

mods_frame ==
    <<commands, selected_server, server_names, input, context, context_chan, child,
      reader, printer_vars, prompt_drawn, treated, completion, call, disk>>

\* the handler up to block_on(download_files(..)): an error without a selected
\* server or when the directory, the jars or the versions cannot be read;
\* without --update it returns once the updates are listed
ListMods ==
    /\ pc = "readline"
    /\ mods = NoUpdate
    /\ handler_ret = "none"
    /\ \E l \in UpdateLines : \E n \in 0..MaxUpdates :
        LET o == execute(commands, l) IN
        /\ line' = l
        /\ result' = o
        /\ \/ /\ handler_ret' = "Err"
              /\ UNCHANGED <<pc, mods>>
           \/ /\ selected_server # << >>
              /\ ~contains(o.tokens, <<"-","-","u","p","d","a","t","e">>)
              /\ handler_ret' = "Ok"
              /\ UNCHANGED <<pc, mods>>
           \/ /\ selected_server # << >>
              /\ contains(o.tokens, <<"-","-","u","p","d","a","t","e">>)
              /\ pc' = "handler"
              /\ mods' = [pc |-> "downloading",
                          task |-> [i \in 1..n |-> "running"],
                          finished |-> << >>, joined |-> 0, next |-> 1,
                          attempted |-> {}, failed |-> {}]
              /\ UNCHANGED handler_ret
    /\ UNCHANGED mods_frame

\* network::download_file in its task: the file is saved, or the request, the
\* status or the write fails
DownloadFile(i) ==
    /\ mods.pc = "downloading"
    /\ i \in DOMAIN mods.task
    /\ mods.task[i] = "running"
    /\ \E r \in {"Ok", "Err"} :
        mods' = [mods EXCEPT !.task[i] = r, !.finished = Append(@, i)]
    /\ UNCHANGED <<line, result, handler_ret, pc>>
    /\ UNCHANGED mods_frame

\* download_files: join_next gives the results in the order the tasks
\* finished; the first error is returned, which drops the JoinSet and aborts
\* the tasks still running, and the handler returns it
JoinNext ==
    /\ mods.pc = "downloading"
    /\ IF mods.joined < Len(mods.finished)
       THEN LET i == mods.finished[mods.joined + 1] IN
            IF mods.task[i] = "Ok"
            THEN /\ mods' = [mods EXCEPT !.joined = @ + 1]
                 /\ UNCHANGED <<handler_ret, pc>>
            ELSE /\ mods' = [mods EXCEPT
                       !.pc = "done",
                       !.joined = @ + 1,
                       !.task = [j \in DOMAIN @ |->
                                    IF @[j] = "running" THEN "aborted" ELSE @[j]]]
                 /\ handler_ret' = "Err"
                 /\ pc' = "readline"
       ELSE /\ mods.joined = Len(mods.task)
            /\ mods' = [mods EXCEPT !.pc = "deleting"]
            /\ UNCHANGED <<handler_ret, pc>>
    /\ UNCHANGED <<line, result>>
    /\ UNCHANGED mods_frame

\* the loop over available_updates: fs::remove_file of the old jar; a failure
\* is printed and the loop goes on
RemoveOld ==
    /\ mods.pc = "deleting"
    /\ mods.next <= Len(mods.task)
    /\ \E r \in {"Ok", "Err"} :
        mods' = [mods EXCEPT
            !.attempted = @ \cup {mods.next},
            !.failed = IF r = "Err" THEN @ \cup {mods.next} ELSE @,
            !.next = @ + 1]
    /\ UNCHANGED <<line, result, handler_ret, pc>>
    /\ UNCHANGED mods_frame

\* the handler returns Ok after the last removal
UpdateDone ==
    /\ mods.pc = "deleting"
    /\ mods.next > Len(mods.task)
    /\ mods' = [mods EXCEPT !.pc = "done"]
    /\ handler_ret' = "Ok"
    /\ pc' = "readline"
    /\ UNCHANGED <<line, result>>
    /\ UNCHANGED mods_frame

NextMods ==
    \/ ListMods
    \/ \E i \in 1..MaxUpdates : DownloadFile(i)
    \/ JoinNext
    \/ RemoveOld
    \/ UpdateDone

SpecMods == InitMods /\ [][NextMods]_vars

\* C20: when the handler has returned, the removal of the old file was
\* attempted for every update whose download succeeded, a failed removal did
\* not stop the others, and a failed download was reported as the error of the
\* command.
C20_BatchUpdate ==
    mods.pc = "done"
        => /\ \A i \in DOMAIN mods.task : mods.task[i] = "Ok" => i \in mods.attempted
           /\ (\E i \in DOMAIN mods.task : mods.task[i] = "Err") => handler_ret = "Err"

\* C21: download_files starts one download per item and returns only after
\* every started download has run to completion or failure: once it has
\* returned, every task of the batch has finished with Ok or Err and none was
\* cancelled while still running.
C21_NoDownloadAbandoned ==
    mods.pc \in {"deleting", "done"}
        => \A i \in DOMAIN mods.task : mods.task[i] \in {"Ok", "Err"}

\* ------------------------------------------------------- option values
\* CommandManager::get_option_value, called once with each option name of
\* OptionNames on each token list of OptionTokenLists.

\* Iterator::position with the closure |t| t == x: 0 is None, i is Some(i - 1)
RECURSIVE position_from(_, _, _)
position_from(tokens, x, i) ==
    IF i > Len(tokens) THEN 0
    ELSE IF tokens[i] = x THEN i
    ELSE position_from(tokens, x, i + 1)

position(tokens, x) == position_from(tokens, x, 1)

\* Result<&String, OptionError>: kind is "Ok", "MissingValue" or "InvalidOption"
OptionValue(kind, value) == [kind |-> kind, value |-> value]

\* a slip: a following token is the value whatever it starts with
get_option_value_any(option_name, tokens) ==
    LET i == position(tokens, option_flag(option_name))
    IN IF i = 0 THEN OptionValue("InvalidOption", << >>)
       ELSE IF i + 1 > Len(tokens) THEN OptionValue("MissingValue", << >>)
       ELSE OptionValue("Ok", tokens[i + 1])

get_option_value(option_name, tokens) ==
    LET i == position(tokens, option_flag(option_name))
    IN IF i = 0 THEN OptionValue("InvalidOption", << >>)
       ELSE IF i + 1 > Len(tokens) THEN OptionValue("MissingValue", << >>)
       ELSE IF starts_with(tokens[i + 1], <<"-","-">>) THEN OptionValue("MissingValue", << >>)
       ELSE OptionValue("Ok", tokens[i + 1])

OptionNames == {<<"l","i","m","i","t">>, <<"i","n","d","e","x">>}

OptionWords == {<<"-","-","l","i","m","i","t">>, <<"-","-","i","n","d","e","x">>, <<"5">>, <<"-","-">>, <<"-","x">>, <<"m","o","d","s">>, <<"-","-","l","i","m","i","t","=","5">>}

OptionTokenLists == UNION {[1..n -> OptionWords] : n \in 0..MaxTokens}

\* a fresh manager on which no line has been executed
InitCall ==
    /\ commands = create_commands
    /\ line = << >>
    /\ result = NoOutcome
    /\ InitEngine(<< >>)
    /\ InitOther

GetOptionValue ==
    /\ call = NoCall
    /\ \E option_name \in OptionNames : \E tokens \in OptionTokenLists :
        call' = [fn |-> "get_option_value", option_name |-> option_name,
                 tokens |-> tokens, ret |-> get_option_value(option_name, tokens)]
    /\ UNCHANGED <<resolver_vars, engine_vars, completion, mods, disk>>

NextOption == GetOptionValue

SpecOption == InitCall /\ [][NextOption]_vars

\* C22: get_option_value returns the token right after the first --name token;
\* the value is missing when --name is the last token or the token after it
\* starts with two dashes; the option is absent when no token equals --name;
\* a token starting with two dashes is never returned as the value.
C22_OptionValue ==
    call.fn = "get_option_value" =>
        LET toks == call.tokens
            I == {i \in 1..Len(toks) : toks[i] = <<"-","-">> \o call.option_name}
        IN /\ I = {} => call.ret.kind = "InvalidOption"
           /\ I # {} =>
                LET i == Min(I) IN
                IF i = Len(toks) \/ starts_with(toks[i + 1], <<"-","-">>)
                THEN call.ret.kind = "MissingValue"
                ELSE call.ret = OptionValue("Ok", toks[i + 1])
           /\ call.ret.kind = "Ok" => ~starts_with(call.ret.value, <<"-","-">>)

\* --limit 5 --limit: the value of the first --limit is returned
C22_Witness ==
    /\ call.fn = "get_option_value"
    /\ call.option_name = <<"l","i","m","i","t">>
    /\ call.tokens = << <<"-","-","l","i","m","i","t">>, <<"5">>, <<"-","-","l","i","m","i","t">> >>
    /\ call.ret = OptionValue("Ok", <<"5">>)

\* ------------------------------------------------------- the server names
\* State::update_server_names and the `add server` handler that calls it, on a
\* disk that holds any of the directories of ServerDirs under instances/.

ServerDirs == {<<"s","1">>, <<"s","2">>, <<"s","3">>}

\* fs::read_dir: the entries of the directory, in the order the system gives
read_dir(dirs) == {s \in [1..Cardinality(dirs) -> dirs] : Range(s) = dirs}

AddServerLines ==
    {<<"a","d","d"," ","s","e","r","v","e","r"," ">> \o d : d \in ServerDirs}
        \cup {<<"a","d","d"," ","s","e","r","v","e","r">>, <<"a","d","d"," ","s","e","r","v","e","r"," ","-","-","g","a","m","e"," ","1",".","2","1">>, <<"a","d","d"," ","s","e","r","v","e","r"," ","'","s"," ","1","'">>}

\* State::new: no server names are known yet, whatever the disk holds
InitServers ==
    /\ commands = create_commands
    /\ line = << >>
    /\ result = NoOutcome
    /\ InitEngine(<< >>)
    /\ completion = NoCompletion
    /\ mods = NoUpdate
    /\ call = NoCall
    /\ disk \in {Disk(dirs) : dirs \in SUBSET ServerDirs}

servers_frame ==
    <<selected_server, pc, input, context, context_chan, child, reader, printer_vars,
      prompt_drawn, treated, completion, mods, call>>

\* update_server_names called on its own: read_dir fails and nothing changes,
\* or the names and the children of select are replaced
UpdateServerNames ==
    /\ \/ UNCHANGED <<server_names, commands>>
       \/ \E names \in read_dir(disk.instances) :
            /\ server_names' = names
            /\ commands' = update_server_names(commands, names)
    /\ UNCHANGED <<line, result, handler_ret, disk>>
    /\ UNCHANGED servers_frame

\* add_server_handler: no name, or the versions or the download fail before
\* the directory is made, or the file, the config or read_dir fail after it,
\* or the names are updated
AddServer ==
    /\ \E l \in AddServerLines : \E o \in {execute(commands, l)} :
        /\ o.handler = "add_server_handler"
        /\ line' = l
        /\ result' = o
        /\ IF Len(o.tokens) < 3 \/ starts_with(o.tokens[3], <<"-">>)
           THEN /\ handler_ret' = "Err"
                /\ UNCHANGED <<server_names, commands, disk>>
           ELSE \/ /\ handler_ret' = "Err"
                   /\ UNCHANGED <<server_names, commands, disk>>
                \/ /\ handler_ret' = "Err"
                   /\ disk' = [disk EXCEPT !.instances = @ \cup {o.tokens[3]}]
                   /\ UNCHANGED <<server_names, commands>>
                \/ /\ handler_ret' = "Ok"
                   /\ disk' = [disk EXCEPT !.instances = @ \cup {o.tokens[3]}]
                   /\ \E names \in read_dir(disk'.instances) :
                        /\ server_names' = names
                        /\ commands' = update_server_names(commands, names)
    /\ UNCHANGED servers_frame

NextServers == UpdateServerNames \/ AddServer

SpecServers == InitServers /\ [][NextServers]_vars

\* the command `select` of the tree
select_command == CHOOSE c \in Range(commands) : c.name = <<"s","e","l","e","c","t">>

\* C23: after every update_server_names the children of select are one node
\* for each entry of server_names, in the same order, each without handler,
\* options and children, and the rest of the tree is as it was built.
C23_SelectChildren ==
    /\ select_command.sub_commands =
          [k \in 1..Len(server_names) |->
              [name |-> server_names[k], sub_commands |-> << >>, options |-> << >>,
               handler |-> None]]
    /\ Len(commands) = Len(create_commands)
    /\ \A i \in 1..Len(commands) :
          [commands[i] EXCEPT !.sub_commands = << >>]
              = [create_commands[i] EXCEPT !.sub_commands = << >>]
    /\ \A i \in 1..Len(commands) :
          commands[i].name # <<"s","e","l","e","c","t">>
              => commands[i].sub_commands = create_commands[i].sub_commands

\* a second server was added after the first: select has the two names
C23_Witness ==
    /\ handler_ret = "Ok"
    /\ line = <<"a","d","d"," ","s","e","r","v","e","r"," ","s","2">>
    /\ Len(server_names) = 2
    /\ Len(select_command.sub_commands) = 2
    /\ disk.instances = {<<"s","1">>, <<"s","2">>}

\* -------------------------------------------------------- shlex::try_join
\* The quoting the crate shlex implements: each word is written bare, in single
\* quotes or in double quotes, whichever the characters of the word allow, in
\* chunks where no one way fits the whole word; the words are joined by one
\* space.  The alphabet of the model holds no NUL (the one QuoteError).

UNQUOTED_OK ==
    Range(<<"a","b","c","d","e","f","g","h","i","j","k","l","m","n","o","p","q","r","s","t","u","v","w","x","y","z","A","B","C","D","E","F","G","H","I","J","K","L","M","N","O","P","Q","R","S","T","U","V","W","X","Y","Z","0","1","2","3","4","5","6","7","8","9","+","-",".","/",":","@","]","_">>)

unquoted_ok(c) == c \in UNQUOTED_OK

single_quoted_ok(c) == c \notin {"'", "^", "\\"}

double_quoted_ok(c) == c \notin {"$", "!", "^"}

\* the ways of quoting that fit the character c
ok_mask(c) ==
    (IF unquoted_ok(c) THEN {"Unquoted"} ELSE {})
        \cup (IF single_quoted_ok(c) THEN {"SingleQuoted"} ELSE {})
        \cup (IF double_quoted_ok(c) THEN {"DoubleQuoted"} ELSE {})

best_quoting_strategy(mask) ==
    IF "Unquoted" \in mask THEN "Unquoted"
    ELSE IF "SingleQuoted" \in mask THEN "SingleQuoted"
    ELSE "DoubleQuoted"

\* quoting_strategy: the longest prefix one way of quoting fits, and that way
RECURSIVE quoting_strategy(_, _, _)
quoting_strategy(s, i, prev_mask) ==
    IF i > Len(s) THEN [len |-> Len(s), strategy |-> best_quoting_strategy(prev_mask)]
    ELSE LET cur_mask == prev_mask \cap ok_mask(s[i]) IN
         IF cur_mask = {}
         THEN IF i = 1 THEN [len |-> 1, strategy |-> "SingleQuoted"]
              ELSE [len |-> i - 1, strategy |-> best_quoting_strategy(prev_mask)]
         ELSE quoting_strategy(s, i + 1, cur_mask)

\* the body of a double-quoted chunk: a backslash before $, ", \ (and the grave
\* accent)
RECURSIVE escape_double(_)
escape_double(s) ==
    IF s = << >> THEN << >>
    ELSE (IF Head(s) \in {"$", "\"", "\\"} THEN <<"\\", Head(s)>> ELSE <<Head(s)>>)
            \o escape_double(Tail(s))

append_quoted_chunk(out, cur_chunk, strategy) ==
    IF strategy = "Unquoted" THEN out \o cur_chunk
    ELSE IF strategy = "SingleQuoted" THEN out \o <<"'">> \o cur_chunk \o <<"'">>
    ELSE out \o <<"\"">> \o escape_double(cur_chunk) \o <<"\"">>

RECURSIVE quote_chunks(_, _)
quote_chunks(remaining, out) ==
    IF remaining = << >> THEN out
    ELSE LET qs == quoting_strategy(remaining, 1,
                       {"Unquoted", "SingleQuoted", "DoubleQuoted"})
         IN quote_chunks(SubSeq(remaining, qs.len + 1, Len(remaining)),
                         append_quoted_chunk(out, SubSeq(remaining, 1, qs.len),
                                             qs.strategy))

\* a slip: every word is written bare
quote_bare(word) == word

\* Quoter::quote
quote(word) == IF word = << >> THEN <<"'","'">> ELSE quote_chunks(word, << >>)

\* shlex::try_join
RECURSIVE try_join(_)
try_join(words) ==
    IF words = << >> THEN << >>
    ELSE IF Len(words) = 1 THEN quote(words[1])
    ELSE quote(words[1]) \o <<" ">> \o try_join(Tail(words))

\* -------------------------------------------------------- the start command
\* struct StartCommand(String): the command as one line.  Its functions split
\* the line, act on the tokens and join them again.

\* what a setter gives: ret is "Ok" or "panic" (an unwrap on None), cmd is the
\* line afterwards
Set(ret, cmd) == [ret |-> ret, cmd |-> cmd]

\* self.0 = shlex::try_join(tokens)? after the replacement r of one token
rejoin(cmd, r) == IF r.ok THEN Set("Ok", try_join(r.value)) ELSE Set("panic", cmd)

StartCommand_set_max_memory(cmd, max_memory) ==
    LET sp == shlex_split(cmd)
    IN IF sp.ok THEN rejoin(cmd, set_memory(sp.tokens, <<"-","X","m","x">>, max_memory))
       ELSE Set("panic", cmd)

StartCommand_set_min_memory(cmd, min_memory) ==
    LET sp == shlex_split(cmd)
    IN IF sp.ok THEN rejoin(cmd, set_memory(sp.tokens, <<"-","X","m","s">>, min_memory))
       ELSE Set("panic", cmd)

StartCommand_set_jar(cmd, jar_name) ==
    LET sp == shlex_split(cmd)
    IN IF sp.ok THEN rejoin(cmd, set_jar(sp.tokens, jar_name))
       ELSE Set("panic", cmd)

\* Iterator::filter(pred).count() with the three predicates of check_valid
count_jar(tokens) == Cardinality({i \in 1..Len(tokens) : ends_with(tokens[i], <<".","j","a","r">>)})

count_flag(tokens, flag) ==
    Cardinality({i \in 1..Len(tokens) : contains_str(tokens[i], flag)})

\* a slip: more than one jar passes
check_valid_some_jar(cmd) ==
    LET sp == shlex_split(cmd)
    IN IF ~sp.ok THEN "Split"
       ELSE IF count_jar(sp.tokens) < 1 THEN "JarOccurrence"
       ELSE IF count_flag(sp.tokens, <<"-","X","m","x">>) # 1 THEN "XmxOccurrence"
       ELSE IF count_flag(sp.tokens, <<"-","X","m","s">>) # 1 THEN "XmsOccurrence"
       ELSE "Ok"

\* StartCommand::check_valid: "Ok" or the InvalidStartCommandError
check_valid(cmd) ==
    LET sp == shlex_split(cmd)
    IN IF ~sp.ok THEN "Split"
       ELSE IF count_jar(sp.tokens) # 1 THEN "JarOccurrence"
       ELSE IF count_flag(sp.tokens, <<"-","X","m","x">>) # 1 THEN "XmxOccurrence"
       ELSE IF count_flag(sp.tokens, <<"-","X","m","s">>) # 1 THEN "XmsOccurrence"
       ELSE "Ok"

\* Setter calls made on one start command.
MaxSets == 2

\* the lines a StartCommand is made from: the one of Config::new, those of the
\* tests, and lines that are short of a flag, repeat one or do not tokenize
StartCommands ==
    {<<"j","a","v","a"," ","-","X","m","x","4","G"," ","-","X","m","s","4","G"," ","-","j","a","r"," ","r","e","p","l","a","c","e","m","e",".","j","a","r"," ","n","o","g","u","i">>,
     <<"j","a","v","a"," ","-","X","m","x","2","G"," ","-","X","m","s","1","G"," ","-","j","a","r"," ","\"","s","o","m","e","-","s","e","r","v","e","r",".","j","a","r","\""," ","n","o","g","u","i">>,
     <<"j","a","v","a"," ","-","X","m","s","1","G"," ","-","X","m","x","2","G"," ","-","j","a","r"," ","'","a"," ","b",".","j","a","r","'">>,
     <<"-","X","m","x","1","-","X","m","s","1"," ","a",".","j","a","r">>,
     <<"j","a","v","a"," ","-","X","m","x","2","G"," ","-","X","m","s","1","G"," ","-","j","a","r"," ","s","o","m","e","-","s","e","r","v","e","r",".","j","a","r"," ","t","w","o",".","j","a","r"," ","n","o","g","u","i">>,
     <<"j","a","v","a"," ","-","X","m","x","2","G"," ","-","X","m","s","1","G"," ","-","j","a","r"," ","n","o","g","u","i">>,
     <<"j","a","v","a"," ","-","X","m","x","2","G"," ","-","X","m","s","1","G"," ","-","j","a","r"," ","s","o","m","e","-","s","e","r","v","e","r",".","j","a","r"," ","n","o","g","u","i"," ","-","X","m","x","1","G">>,
     <<"j","a","v","a"," ","-","X","m","s","1","G"," ","-","j","a","r"," ","s","o","m","e","-","s","e","r","v","e","r",".","j","a","r"," ","n","o","g","u","i">>,
     <<"j","a","v","a"," ","-","X","m","x","2","G"," ","-","X","m","s","1","G"," ","-","j","a","r"," ","s","o","m","e","-","s","e","r","v","e","r",".","j","a","r"," ","n","o","g","u","i"," ","-","X","m","s","1","G">>,
     <<"j","a","v","a"," ","-","X","m","x","2","G"," ","-","j","a","r"," ","s","o","m","e","-","s","e","r","v","e","r",".","j","a","r"," ","n","o","g","u","i">>,
     <<"j","a","v","a"," ","-","X","m","x","2","G"," ","-","X","m","s","1","G"," ","-","j","a","r"," ","'","a",".","j","a","r">>,
     <<"j","a","v","a"," ","-","X","m","x","2","G"," ","-","X","m","s","1","G"," ","#"," ","-","j","a","r"," ","a",".","j","a","r">>,
     <<>>}

MemoryValues == {<<"3","G">>, <<>>, <<"1"," ","G">>, <<"-","X","m","s","1","G">>, <<"-","X","m","x","9">>, <<"x",".","j","a","r">>, <<"i","t","'","s">>}

JarNames == {<<"n","o","s","p","a","c","e","s",".","j","a","r">>, <<"a"," ","s","e","r","v","e","r",".","j","a","r">>, <<"-","X","m","x",".","j","a","r">>, <<"i","t","'","s",".","j","a","r">>, <<"j","a","r">>, <<>>}

\* the words handed to try_join
JoinWords ==
    {<<>>, <<"a">>, <<"a"," ","b">>, <<"a","\t","b">>, <<"#","a">>, <<"a","\\","b">>, <<"a",".","j","a","r">>, <<"-","X","m","x","2","G">>, <<"i","t","'","s">>, <<"a","\"","b">>,
     <<"'","\"">>, <<"$","a">>, <<" ">>}

JoinTokenLists ==
    UNION {[1..n -> JoinWords] : n \in 0..MaxTokens}
        \cup {shlex_split(x).tokens : x \in SpecialLines \cup ProgramLines \cup StartCommands}

\* the lists of words are joined and the line is split again
TryJoin ==
    /\ call = NoCall
    /\ \E tokens \in JoinTokenLists :
        LET joined == try_join(tokens) IN
        call' = [fn |-> "try_join", tokens |-> tokens, cmd |-> joined,
                 back |-> shlex_split(joined)]
    /\ UNCHANGED <<resolver_vars, engine_vars, completion, mods, disk>>

\* impl From<String> for StartCommand
From ==
    /\ call = NoCall
    /\ \E c \in StartCommands :
        call' = [fn |-> "from", arg |-> << >>, before |-> c, cmd |-> c, ret |-> "Ok",
                 first |-> c, hist |-> << >>]
    /\ UNCHANGED <<resolver_vars, engine_vars, completion, mods, disk>>

\* the StartCommand a call can be made on
HasStartCommand == call.fn \notin {"none", "try_join"} /\ call.ret # "panic"

Setter(fn, arg, r) ==
    call' = [call EXCEPT !.fn = fn, !.arg = arg, !.before = call.cmd, !.cmd = r.cmd,
                         !.ret = r.ret, !.hist = Append(@, <<fn, arg>>)]

SetMaxMemory ==
    /\ HasStartCommand
    /\ Len(call.hist) < MaxSets
    /\ \E v \in MemoryValues :
        Setter("set_max_memory", v, StartCommand_set_max_memory(call.cmd, v))
    /\ UNCHANGED <<resolver_vars, engine_vars, completion, mods, disk>>

SetMinMemory ==
    /\ HasStartCommand
    /\ Len(call.hist) < MaxSets
    /\ \E v \in MemoryValues :
        Setter("set_min_memory", v, StartCommand_set_min_memory(call.cmd, v))
    /\ UNCHANGED <<resolver_vars, engine_vars, completion, mods, disk>>

SetJar ==
    /\ HasStartCommand
    /\ Len(call.hist) < MaxSets
    /\ \E n \in JarNames :
        Setter("set_jar", n, StartCommand_set_jar(call.cmd, n))
    /\ UNCHANGED <<resolver_vars, engine_vars, completion, mods, disk>>

\* check_valid leaves the command as it is
CheckValid ==
    /\ HasStartCommand
    /\ call.fn # "check_valid"
    /\ call' = [call EXCEPT !.fn = "check_valid", !.arg = << >>, !.before = call.cmd,
                            !.ret = check_valid(call.cmd)]
    /\ UNCHANGED <<resolver_vars, engine_vars, completion, mods, disk>>

NextStartCommand == TryJoin \/ From \/ SetMaxMemory \/ SetMinMemory \/ SetJar \/ CheckValid

SpecStartCommand == InitCall /\ [][NextStartCommand]_vars

\* C24: a list of words joined by try_join and split again is the same list,
\* so the split of a line, joined and split again, is the split of the line; a
\* jar name with whitespace set by set_jar leaves the number of tokens of the
\* start command as it was.
C24_RoundTrip ==
    /\ call.fn = "try_join" => call.back = [ok |-> TRUE, tokens |-> call.tokens]
    /\ (call.fn = "set_jar" /\ call.ret = "Ok")
          => Len(shlex_split(call.cmd).tokens) = Len(shlex_split(call.before).tokens)

\* the jar name with a space was set and the line holds it in quotes
C24_Witness ==
    /\ call.fn = "set_jar"
    /\ call.arg = <<"a"," ","s","e","r","v","e","r",".","j","a","r">>
    /\ call.cmd = <<"j","a","v","a"," ","-","X","m","x","4","G"," ","-","X","m","s","4","G"," ","-","j","a","r"," ","'","a"," ","s","e","r","v","e","r",".","j","a","r","'"," ","n","o","g","u","i">>

\* ------------------------------------------------------ the deepest match
\* find_deepest_subcommand called as execute calls it: on the children of the
\* command the first token names, with all the tokens of the line.

\* a tree where the sibling declared later has the deeper match
walk_commands ==
    << Node(<<"c","m","d","1">>,
            << Node(<<"s","u","b","1">>, << Node(<<"s","u","b","2">>, << >>, << >>, None) >>, << >>, None),
               Node(<<"a","l","t","1">>, << Node(<<"s","u","b","3">>, << >>, << >>, None) >>, << >>, None) >>,
            << >>, None) >>

WalkLines ==
    ExecLines \cup {<<"c","m","d","1"," ","a","l","t","1"," ","s","u","b","3"," ","s","u","b","1">>, <<"c","m","d","1"," ","s","u","b","3"," ","a","l","t","1">>, <<"c","m","d","1"," ","s","u","b","2"," ","s","u","b","1"," ","a","l","t","1">>}

InitWalk ==
    /\ commands \in Trees \cup {walk_commands}
    /\ line = << >>
    /\ result = NoOutcome
    /\ InitEngine(<< >>)
    /\ InitOther

FindDeepest ==
    /\ call = NoCall
    /\ \E l \in WalkLines : \E sp \in {shlex_split(l)} :
        /\ sp.ok
        /\ sp.tokens # << >>
        /\ find_command(commands, sp.tokens[1]) # 0
        /\ line' = l
        /\ LET subcommands == commands[find_command(commands, sp.tokens[1])].sub_commands
           IN call' = [fn |-> "find_deepest_subcommand", subcommands |-> subcommands,
                       tokens |-> sp.tokens,
                       ret |-> find_deepest_subcommand(subcommands, sp.tokens)]
    /\ UNCHANGED <<commands, result, engine_vars, completion, mods, disk>>

NextWalk == FindDeepest

SpecWalk == InitWalk /\ [][NextWalk]_vars

\* the children of subs that a token names
named_children(subs, tokens) == {i \in 1..Len(subs) : contains(tokens, subs[i].name)}

\* ch is a path below subs that takes at each level the first child in
\* declaration order that a token names
RECURSIVE greedy_path(_, _, _)
greedy_path(ch, subs, tokens) ==
    ch = << >>
        \/ /\ named_children(subs, tokens) # {}
           /\ ch[1] = subs[Min(named_children(subs, tokens))]
           /\ greedy_path(Tail(ch), ch[1].sub_commands, tokens)

\* the paths below subs, of any length up to the depth of the trees
RECURSIVE paths(_, _)
paths(subs, n) ==
    {<< >>} \cup
        (IF n = 0 THEN {}
         ELSE UNION {{<< subs[i] >> \o p : p \in paths(subs[i].sub_commands, n - 1)} :
                        i \in 1..Len(subs)})

\* the orders the tokens toks can be typed in
orders(toks) ==
    {[i \in 1..Len(toks) |-> toks[p[i]]] :
        p \in {q \in [1..Len(toks) -> 1..Len(toks)] : Range(q) = 1..Len(toks)}}

\* C25: the node found is the end of the path that takes at each level the
\* first child in declaration order named by any token of the list and stops
\* where no child is named (no other path is tried); nothing is found only
\* when no child is named; the order the tokens are typed in makes no
\* difference: add mod server resolves to server, and cmd1 alt1 sub3 sub1
\* stops at sub1 on the tree where sub3 is below alt1.
C25_GreedyWalk ==
    call.fn = "find_deepest_subcommand" =>
        LET subs == call.subcommands
            toks == call.tokens
        IN /\ call.ret = << >> <=> named_children(subs, toks) = {}
           /\ call.ret # << >> =>
                \E ch \in paths(subs, MaxDepth + 1) :
                    /\ ch # << >>
                    /\ greedy_path(ch, subs, toks)
                    /\ named_children(ch[Len(ch)].sub_commands, toks) = {}
                    /\ call.ret = << ch[Len(ch)] >>
           /\ \A o \in orders(toks) : find_deepest_subcommand(subs, o) = call.ret
           /\ (commands = create_commands /\ toks = << <<"a","d","d">>, <<"m","o","d">>, <<"s","e","r","v","e","r">> >>)
                => call.ret[1].name = <<"s","e","r","v","e","r">>
           /\ (commands = walk_commands
                  /\ toks = << <<"c","m","d","1">>, <<"a","l","t","1">>, <<"s","u","b","3">>, <<"s","u","b","1">> >>)
                => call.ret[1].name = <<"s","u","b","1">>

\* add mod server on the program's tree resolves to server
C25_Witness ==
    /\ call.fn = "find_deepest_subcommand"
    /\ commands = create_commands
    /\ call.tokens = << <<"a","d","d">>, <<"m","o","d">>, <<"s","e","r","v","e","r">> >>
    /\ call.ret # << >>
    /\ call.ret[1].handler = "add_server_handler"

\* exactly one token of toks satisfies P
ExactlyOne(toks, P(_)) ==
    \E i \in 1..Len(toks) : P(toks[i]) /\ \A j \in 1..Len(toks) : P(toks[j]) => j = i

is_jar(t) == ends_with(t, <<".","j","a","r">>)

has_xmx(t) == contains_str(t, <<"-","X","m","x">>)

has_xms(t) == contains_str(t, <<"-","X","m","s">>)

\* C26: check_valid succeeds exactly when the command tokenizes and has
\* exactly one token ending in .jar, exactly one containing -Xmx and exactly
\* one containing -Xms; none or several of any of the three, or a line that
\* does not tokenize, is an error.
C26_CheckValid ==
    call.fn = "check_valid" =>
        LET sp == shlex_split(call.cmd) IN
        /\ call.ret = "Ok"
              <=> /\ sp.ok
                  /\ ExactlyOne(sp.tokens, is_jar)
                  /\ ExactlyOne(sp.tokens, has_xmx)
                  /\ ExactlyOne(sp.tokens, has_xms)
        /\ ~sp.ok => call.ret = "Split"
        /\ call.ret \in {"Ok", "Split", "JarOccurrence", "XmxOccurrence", "XmsOccurrence"}

\* the line with two jars of the tests was checked and refused
C26_Witness ==
    /\ call.fn = "check_valid"
    /\ call.cmd = <<"j","a","v","a"," ","-","X","m","x","2","G"," ","-","X","m","s","1","G"," ","-","j","a","r"," ","s","o","m","e","-","s","e","r","v","e","r",".","j","a","r"," ","t","w","o",".","j","a","r"," ","n","o","g","u","i">>
    /\ call.ret = "JarOccurrence"

\* toks2 is toks1 with the one token that satisfies P replaced by new
OnlyReplaced(toks1, toks2, P(_), new) ==
    /\ Len(toks2) = Len(toks1)
    /\ \A i \in 1..Len(toks1) : toks2[i] = IF P(toks1[i]) THEN new ELSE toks1[i]

\* C27: on a valid start command set_max_memory(v) replaces only the token
\* with -Xmx by -Xmx followed by v, set_min_memory(v) only the token with -Xms
\* by -Xms followed by v, and set_jar(n) only the token ending in .jar by n;
\* the other tokens, their number and their order stay.
C27_SettersFrame ==
    (call.fn \in {"set_max_memory", "set_min_memory", "set_jar"}
        /\ check_valid(call.before) = "Ok")
        => LET toks1 == shlex_split(call.before).tokens
               sp2 == shlex_split(call.cmd)
           IN /\ call.ret = "Ok"
              /\ sp2.ok
              /\ call.fn = "set_max_memory"
                    => OnlyReplaced(toks1, sp2.tokens, has_xmx, <<"-","X","m","x">> \o call.arg)
              /\ call.fn = "set_min_memory"
                    => OnlyReplaced(toks1, sp2.tokens, has_xms, <<"-","X","m","s">> \o call.arg)
              /\ call.fn = "set_jar"
                    => OnlyReplaced(toks1, sp2.tokens, is_jar, call.arg)

\* a value with a space was set as the maximum on the command of Config::new
C27_Witness ==
    /\ call.fn = "set_max_memory"
    /\ call.arg = <<"1"," ","G">>
    /\ call.before = <<"j","a","v","a"," ","-","X","m","x","4","G"," ","-","X","m","s","4","G"," ","-","j","a","r"," ","r","e","p","l","a","c","e","m","e",".","j","a","r"," ","n","o","g","u","i">>
    /\ call.cmd = <<"j","a","v","a"," ","'","-","X","m","x","1"," ","G","'"," ","-","X","m","s","4","G"," ","-","j","a","r"," ","r","e","p","l","a","c","e","m","e",".","j","a","r"," ","n","o","g","u","i">>

\* every set_jar of the calls made so far was given a name ending in .jar
JarNamesEndInJar ==
    \A k \in 1..Len(call.hist) :
        call.hist[k][1] = "set_jar" => ends_with(call.hist[k][2], <<".","j","a","r">>)

\* C28: a start command that check_valid accepts is still accepted after any
\* sequence of set_max_memory, set_min_memory and set_jar (with names ending
\* in .jar), whatever the values are.
C28_ValidityPreserved ==
    (call.fn = "check_valid" /\ call.hist # << >> /\ check_valid(call.first) = "Ok"
        /\ JarNamesEndInJar)
        => call.ret = "Ok"

\* ------------------------------------------------------- the jar update
\* update_server_handler with the files it reads and writes: the jars in the
\* directory of the selected server and its saved config.

\* fabric_meta::fetch_latest_stable_versions: game, loader and installer
LATEST_STABLE == << <<"2">>, <<"0",".","1","6">>, <<"1",".","0">> >>

\* the file name download_server makes of the versions
server_jar_name(game_version, loader_version, installer_version) ==
    <<"f","a","b","r","i","c","-","s","e","r","v","e","r","-","m","c",".">> \o game_version \o <<"-","l","o","a","d","e","r",".">> \o loader_version
        \o <<"-","l","a","u","n","c","h","e","r",".">> \o installer_version \o <<".","j","a","r">>

\* Option::or: the value of the option, else the latest stable one, else None
version_or(v, use_latest_stable, k) ==
    IF v.kind = "Ok" THEN << v.value >>
    ELSE IF use_latest_stable THEN << LATEST_STABLE[k] >>
    ELSE << >>

\* CommandManager::get_versions once the latest stable versions are there:
\* << >> is Err
get_versions(tokens) ==
    LET use_latest_stable == contains(tokens, <<"-","-","l","a","t","e","s","t","-","s","t","a","b","l","e">>)
        g == version_or(get_option_value(<<"g","a","m","e">>, tokens), use_latest_stable, 1)
        l == version_or(get_option_value(<<"l","o","a","d","e","r">>, tokens), use_latest_stable, 2)
        i == version_or(get_option_value(<<"i","n","s","t","a","l","l","e","r">>, tokens), use_latest_stable, 3)
    IN IF g = << >> \/ l = << >> \/ i = << >> THEN << >>
       ELSE << g[1], l[1], i[1] >>

\* StartCommand::get_jar_name: << >> where unwrap panics
get_jar_name(tokens) ==
    LET I == {i \in 1..Len(tokens) : ends_with(tokens[i], <<".","j","a","r">>)}
    IN IF I = {} THEN << >> ELSE << tokens[Min(I)] >>

UpdateServerLines ==
    {<<"u","p","d","a","t","e"," ","s","e","r","v","e","r"," ","-","-","g","a","m","e"," ","1"," ","-","-","l","a","t","e","s","t","-","s","t","a","b","l","e">>, <<"u","p","d","a","t","e"," ","s","e","r","v","e","r"," ","-","-","g","a","m","e"," ","2"," ","-","-","l","a","t","e","s","t","-","s","t","a","b","l","e">>,
     <<"u","p","d","a","t","e"," ","s","e","r","v","e","r"," ","-","-","l","a","t","e","s","t","-","s","t","a","b","l","e">>, <<"u","p","d","a","t","e"," ","s","e","r","v","e","r"," ","-","-","g","a","m","e"," ","3"," ","-","-","l","o","a","d","e","r"," ","0",".","1","6"," ","-","-","i","n","s","t","a","l","l","e","r"," ","1",".","0">>,
     <<"u","p","d","a","t","e"," ","s","e","r","v","e","r"," ","-","-","g","a","m","e"," ","1">>, <<"u","p","d","a","t","e"," ","s","e","r","v","e","r"," ","-","-","g","a","m","e"," ","-","-","l","a","t","e","s","t","-","s","t","a","b","l","e">>, <<"u","p","d","a","t","e"," ","s","e","r","v","e","r">>}

\* the server s1 is on the disk and no server is selected yet
InitUpdate ==
    /\ commands = update_server_names(create_commands, << <<"s","1">> >>)
    /\ line = << >>
    /\ result = NoOutcome
    /\ InitEngine(<< <<"s","1">> >>)
    /\ InitOther

update_frame ==
    <<commands, server_names, pc, input, context, context_chan, child, reader,
      printer_vars, prompt_drawn, treated, completion, mods, call>>

\* select s1: State::select_server loads the saved config of the server
SelectServer ==
    /\ line' = <<"s","e","l","e","c","t"," ","s","1">>
    /\ result' = execute(commands, line')
    /\ \/ handler_ret' = "Err" /\ UNCHANGED selected_server
       \/ /\ handler_ret' = "Ok"
          /\ selected_server' = << Server(<<"s","1">>, disk.config) >>
    /\ UNCHANGED disk
    /\ UNCHANGED update_frame

\* the handler after the new jar file_name is in the directory: the old jar is
\* removed, the jar of the start command is set and the config is saved
replace_jar(server, file_name, jars) ==
    LET old_jar_name == get_jar_name(server.config.start_command) IN
    IF old_jar_name = << >>
    THEN handler_ret' = "panic" /\ disk' = [disk EXCEPT !.jars = jars]
                                /\ UNCHANGED selected_server
    ELSE IF old_jar_name[1] \notin jars
    THEN handler_ret' = "Err" /\ disk' = [disk EXCEPT !.jars = jars]
                              /\ UNCHANGED selected_server
    ELSE \/ handler_ret' = "Err" /\ disk' = [disk EXCEPT !.jars = jars]
                                 /\ UNCHANGED selected_server
         \/ LET new == [server EXCEPT !.config.start_command =
                                         set_jar(@, file_name).value]
            IN /\ selected_server' = << new >>
               /\ \/ /\ handler_ret' = "Err"
                     /\ disk' = [disk EXCEPT !.jars = jars \ {old_jar_name[1]}]
                  \/ /\ handler_ret' = "Ok"
                     /\ disk' = [disk EXCEPT !.jars = jars \ {old_jar_name[1]},
                                             !.config = new.config]

\* update_server_handler, whole: no server selected, no versions, a download
\* that fails before or after the file is created, and then replace_jar
UpdateServer ==
    /\ \E l \in UpdateServerLines : \E o \in {execute(commands, l)} :
        /\ o.handler = "update_server_handler"
        /\ line' = l
        /\ result' = o
        /\ IF selected_server = << >> \/ get_versions(o.tokens) = << >>
           THEN handler_ret' = "Err" /\ UNCHANGED <<selected_server, disk>>
           ELSE LET v == get_versions(o.tokens)
                    file_name == server_jar_name(v[1], v[2], v[3])
                IN \/ handler_ret' = "Err" /\ UNCHANGED <<selected_server, disk>>
                   \/ /\ handler_ret' = "Err"
                      /\ disk' = [disk EXCEPT !.jars = @ \cup {file_name}]
                      /\ UNCHANGED selected_server
                   \/ replace_jar(selected_server[1], file_name,
                                  disk.jars \cup {file_name})
    /\ UNCHANGED update_frame

NextUpdate == SelectServer \/ UpdateServer

SpecUpdate == InitUpdate /\ [][NextUpdate]_vars

\* C29: when update server has returned Ok, the jar named in the saved config
\* is in the directory of the server and is the only jar there.
C29_JarInPlace ==
    (result.handler = "update_server_handler" /\ handler_ret = "Ok")
        => LET jar == get_jar_name(disk.config.start_command)
           IN jar # << >> /\ disk.jars = {jar[1]}

\* the token of the selected server's start command that holds the flag
memory_token(flag) ==
    LET toks == selected_server[1].config.start_command
    IN toks[Min({i \in 1..Len(toks) : contains_str(toks[i], flag)})]

\* C30: with a server selected, set max-memory V that returns Ok leaves the
\* -Xmx token of the start command equal to -Xmx followed by V, the token
\* typed after the sub-command name, and set min-memory V likewise for -Xms;
\* without a value the handler returns an error.
C30_MemoryValueSet ==
    /\ (result.handler = "set_max_memory_handler" /\ handler_ret = "Ok")
          => /\ Len(result.tokens) >= 3
             /\ memory_token(<<"-","X","m","x">>) = <<"-","X","m","x">> \o result.tokens[3]
    /\ (result.handler = "set_min_memory_handler" /\ handler_ret = "Ok")
          => /\ Len(result.tokens) >= 3
             /\ memory_token(<<"-","X","m","s">>) = <<"-","X","m","s">> \o result.tokens[3]
    /\ (result.handler \in {"set_max_memory_handler", "set_min_memory_handler"}
          /\ Len(result.tokens) < 3 /\ handler_ret # "none")
          => handler_ret = "Err"

=============================================================================
